---- MODULE Spec2Model ----
(***************************************************************************)
(* Model of the kube-doctor diagnostic engines (Go MCP server and the      *)
(* VS Code extension): topology resolvers, health predicates and the       *)
(* request-path / network-policy / resource-usage pipelines.               *)
(*                                                                         *)
(* Strings that the code inspects character by character (URL paths,       *)
(* object names that become diagram ids) are sequences of one-character    *)
(* strings; all other names are atoms.                                     *)
(***************************************************************************)
EXTENDS Integers, Sequences, FiniteSets, TLC

VARIABLES
    engine,      \* which tool implementation is running
    pc,          \* position of the running tool (next stage to execute)
    input,       \* the tool's input (or the arguments of a pure function)
    loc,         \* the tool's local variables (or the result of a pure function)
    lines,       \* the report text built so far, one record per line
    findings,    \* Go: the `findings` counter; TS: the `findings` array
    actions,     \* Go: the `actions` slice of suggested actions
    fc,          \* the topology flowchart: [lines |-> ..., styles |-> ...]
    calls        \* history of the Resource Accessor calls made by this run

vars == <<engine, pc, input, loc, lines, findings, actions, fc, calls>>

-----------------------------------------------------------------------------
(* Bounds of the model *)

MaxIngresses == 2   \* ingresses returned by one list call
MaxSubsets   == 2   \* subsets of one Endpoints object
MaxPods      == 2   \* pods returned by one list call
MaxEventList == 1   \* events returned for one object
MaxContainers == 2  \* container statuses of one pod given to a health predicate
MaxUsagePods == 2   \* pods of the namespace given to the resource-usage analysis
MaxPolicies == 2    \* network policies returned by one list call
MaxEnv == 2         \* environment variables of one container
MaxEvents == 2      \* util.MaxEvents, the length ListEvents truncates to, scaled down
MaxListed == 3      \* events the API returns to one list call
MaxTicks == 2       \* clock advances between two runs of one engine
MaxDnsPods == 2     \* pods of kube-system
MaxOps     == 3     \* Add... calls on one diagram builder
MaxUnhealthy == 10  \* unhealthy pods of one namespace in the pod tally
MaxSvcEvents == 11  \* events GetEventsForObject returns for the diagnosed service

-----------------------------------------------------------------------------
(* Generic helpers *)

Min(a, b) == IF a < b THEN a ELSE b

RECURSIVE SumSeq(_)
SumSeq(s) == IF s = <<>> THEN 0 ELSE Head(s) + SumSeq(Tail(s))

RECURSIVE FlatSeq(_)
FlatSeq(ss) == IF ss = <<>> THEN <<>> ELSE Head(ss) \o FlatSeq(Tail(ss))

Range(s) == {s[i] : i \in 1..Len(s)}

SelectIdx(s, P(_)) == {i \in 1..Len(s) : P(s[i])}

\* strings.HasPrefix(s, prefix) on character sequences
HasPrefix(s, prefix) ==
    /\ Len(prefix) <= Len(s)
    /\ SubSeq(s, 1, Len(prefix)) = prefix

\* All the order-preserving sub-lists of pool with at most n elements.
RECURSIVE SubLists(_, _)
SubLists(pool, n) ==
    IF pool = <<>> \/ n = 0 THEN {<<>>}
    ELSE SubLists(Tail(pool), n)
         \cup {<<Head(pool)>> \o r : r \in SubLists(Tail(pool), n - 1)}

\* All the lists of at most n distinct elements of pool, in any order.
RECURSIVE Arrangements(_, _)
Arrangements(S, n) ==
    IF S = {} \/ n = 0 THEN {<<>>}
    ELSE {<<>>} \cup UNION {{<<x>> \o r : r \in Arrangements(S \ {x}, n - 1)} : x \in S}

-----------------------------------------------------------------------------
(* Report lines *)

Line(t, sev, what, arg) == [t |-> t, sev |-> sev, what |-> what, arg |-> arg]
\* The argument of a line: a name and up to two numbers
N(n)        == [name |-> <<>>, n |-> n, m |-> 0]
NM(n, m)    == [name |-> <<>>, n |-> n, m |-> m]
Named(name) == [name |-> name, n |-> 0, m |-> 0]
NamedN(name, n) == [name |-> name, n |-> n, m |-> 0]

Section(name)           == Line("section", "", name, N(0))
Text(what, arg)         == Line("text", "", what, arg)
\* util.FormatFinding(severity, message)
FormatFinding(sev, what, arg) == Line("finding", sev, what, arg)

IsFinding(l) == l.t = "finding"
FindingLines(ls) == SelectSeq(ls, IsFinding)

-----------------------------------------------------------------------------
(* Mermaid flowchart builder (pkg/mermaid) *)

NewFlowchart == [lines |-> <<>>, styles |-> <<>>]

AddNode(f, id, label) ==
    [f EXCEPT !.lines = Append(@, [k |-> "node", id |-> id, to |-> <<>>, label |-> label])]

AddEdge(f, from, to, label) ==
    [f EXCEPT !.lines = Append(@, [k |-> "edge", id |-> from, to |-> to, label |-> label])]

AddStyle(f, id, sev) ==
    [f EXCEPT !.styles = Append(@, [id |-> id, style |-> sev])]

AddRawStyle(f, id, style) ==
    [f EXCEPT !.styles = Append(@, [id |-> id, style |-> style])]

Digits  == {"0", "1", "2", "3", "4", "5", "6", "7", "8", "9"}
Letters == {"a", "b", "c", "d", "e", "f", "g", "h", "i", "j", "k", "l", "m",
            "n", "o", "p", "q", "r", "s", "t", "u", "v", "w", "x", "y", "z",
            "A", "B", "C", "D", "E", "F", "G", "H", "I", "J", "K", "L", "M",
            "N", "O", "P", "Q", "R", "S", "T", "U", "V", "W", "X", "Y", "Z"}

\* safeIDRegexp.ReplaceAllString(s, "_"): every character outside [a-zA-Z0-9_]
ReplaceUnsafe(s) ==
    [i \in 1..Len(s) |-> IF s[i] \in Letters \cup Digits \cup {"_"} THEN s[i] ELSE "_"]

\* SafeID (Go, pkg/mermaid)
SafeID(s) ==
    LET id == ReplaceUnsafe(s)
    IN  IF Len(id) = 0 THEN <<"_">>
        ELSE IF id[1] \in Digits THEN <<"_">> \o id
        ELSE id

\* mermaidSafeId (TS)
mermaidSafeId(text) == ReplaceUnsafe(text)

NodeIds(f)  == {l.id : l \in {x \in Range(f.lines) : x.k = "node"}}
EdgeSet(f)  == {<<l.id, l.to>> : l \in {x \in Range(f.lines) : x.k = "edge"}}
StylesOf(f, id) == {s.style : s \in {x \in Range(f.styles) : x.id = id}}

-----------------------------------------------------------------------------
(* Cluster objects the Resource Accessor can return *)

Host      == "api.example.com"
OtherHost == "www.example.com"

Web1 == <<"w", "e", "b", "-", "1">>
Web2 == <<"w", "e", "b", "-", "2">>
Web3 == <<"w", "e", "b", "-", "3">>

IngPrefix == <<"i", "n", "g", "-", "p", "r", "e", "f", "i", "x">>
IngExact == <<"i", "n", "g", "-", "e", "x", "a", "c", "t">>
IngNoBackend == <<"i", "n", "g", "-", "n", "o", "b", "a", "c", "k", "e", "n", "d">>
IngOther == <<"i", "n", "g", "-", "o", "t", "h", "e", "r">>
SvcApi == <<"a", "p", "i">>
SvcWeb == <<"w", "e", "b">>

PathRoot == <<"/">>
PathV1   == <<"/", "v", "1">>
PathV1X  == <<"/", "v", "1", "/", "x">>
PathV    == <<"/", "v">>

\* One HTTP path of an ingress rule; svc = <<>> is a path without a service
\* backend. Every backend of the pool names port 80.
HTTPPath(path, pathType, svc) ==
    [path |-> path, pathType |-> pathType, svc |-> svc, port |-> 80]

Ingress(name, host, paths, tlsHosts) ==
    [name |-> name, ns |-> "prod",
     rules |-> <<[host |-> host, http |-> TRUE, paths |-> paths]>>,
     tls |-> IF tlsHosts = <<>> THEN <<>>
             ELSE <<[hosts |-> tlsHosts, secretName |-> "tls-secret"]>>]

IngressPool == <<
    Ingress(IngPrefix, Host, <<HTTPPath(PathV1, "Prefix", SvcApi)>>, <<Host>>),
    Ingress(IngExact, Host, <<HTTPPath(PathV1, "Exact", SvcApi)>>, <<>>),
    Ingress(IngNoBackend, Host, <<HTTPPath(PathRoot, "", <<>>)>>, <<OtherHost>>),
    Ingress(IngOther, OtherHost, <<HTTPPath(PathRoot, "Prefix", SvcWeb)>>, <<>>) >>

IngressLists == Arrangements(Range(IngressPool), MaxIngresses)

NoIngress == [name |-> <<>>, ns |-> "", rules |-> <<>>, tls |-> <<>>]
NoPath    == HTTPPath(<<>>, "", <<>>)

-----------------------------------------------------------------------------
(* Topology resolvers: ingress lookup *)

\* matchPath (Go): Exact is equality, Prefix and everything else a prefix test
matchPath(pattern, path, pathType) ==
    CASE pathType = "Exact"  -> path = pattern
      [] pathType = "Prefix" -> HasPrefix(path, pattern)
      [] OTHER               -> HasPrefix(path, pattern)

\* The pathType the Go loop hands to matchPath: Prefix when the field is nil
goPathType(p) == IF p.pathType = "" THEN "Prefix" ELSE p.pathType

RECURSIVE goFindPath(_, _, _)
goFindPath(paths, k, path) ==
    IF k > Len(paths) THEN 0
    ELSE IF matchPath(paths[k].path, path, goPathType(paths[k])) THEN k
    ELSE goFindPath(paths, k + 1, path)

RECURSIVE goFindRule(_, _, _, _)
goFindRule(rules, j, host, path) ==
    IF j > Len(rules) THEN <<0, 0>>
    ELSE IF rules[j].host # host \/ ~rules[j].http
         THEN goFindRule(rules, j + 1, host, path)
    ELSE LET k == goFindPath(rules[j].paths, 1, path)
         IN  IF k > 0 THEN <<j, k>> ELSE goFindRule(rules, j + 1, host, path)

RECURSIVE goFindIng(_, _, _, _)
goFindIng(items, i, host, path) ==
    IF i > Len(items) THEN <<0, 0, 0>>
    ELSE LET jk == goFindRule(items[i].rules, 1, host, path)
         IN  IF jk[1] > 0 THEN <<i, jk[1], jk[2]>>
             ELSE goFindIng(items, i + 1, host, path)

\* A list call of the Resource Accessor: a transport/API error or the items
Listing(err, items) == [err |-> err, items |-> items]

IngressListings == {Listing(TRUE, <<>>)} \cup {Listing(FALSE, l) : l \in IngressLists}

FoundIngress(found, err, ing, host, p) ==
    [found |-> found, err |-> err, ing |-> ing, host |-> host, path |-> p]

\* FindIngressForHostPath (Go). `first` is the result of the namespaced list,
\* `second` the result of the repeated list the function makes when namespace
\* is empty. err is "" (a match), "list" (the list failed) or "nomatch".
FindIngressForHostPath(first, second, namespace, host, path) ==
    IF first.err THEN FoundIngress(FALSE, "list", NoIngress, "", NoPath)
    ELSE IF namespace = "" /\ second.err
         THEN FoundIngress(FALSE, "list", NoIngress, "", NoPath)
    ELSE LET items == IF namespace = "" THEN second.items ELSE first.items
             t     == goFindIng(items, 1, host, path)
         IN  IF t[1] = 0 THEN FoundIngress(FALSE, "nomatch", NoIngress, "", NoPath)
             ELSE FoundIngress(TRUE, "", items[t[1]],
                               items[t[1]].rules[t[2]].host,
                               items[t[1]].rules[t[2]].paths[t[3]])

\* The test of one path entry in findIngressForHostPath (TS)
tsPathMatches(p, path) ==
    LET pathType == IF p.pathType = "" THEN "Prefix" ELSE p.pathType
    IN  \/ pathType = "Exact" /\ path = p.path
        \/ p.path # <<>> /\ HasPrefix(path, p.path)

RECURSIVE tsFindPath(_, _, _)
tsFindPath(paths, k, path) ==
    IF k > Len(paths) THEN 0
    ELSE IF tsPathMatches(paths[k], path) THEN k
    ELSE tsFindPath(paths, k + 1, path)

RECURSIVE tsFindRule(_, _, _, _)
tsFindRule(rules, j, host, path) ==
    IF j > Len(rules) THEN <<0, 0>>
    ELSE IF rules[j].host # host THEN tsFindRule(rules, j + 1, host, path)
    ELSE LET k == tsFindPath(IF rules[j].http THEN rules[j].paths ELSE <<>>, 1, path)
         IN  IF k > 0 THEN <<j, k>> ELSE tsFindRule(rules, j + 1, host, path)

RECURSIVE tsFindIng(_, _, _, _)
tsFindIng(items, i, host, path) ==
    IF i > Len(items) THEN <<0, 0, 0>>
    ELSE LET jk == tsFindRule(items[i].rules, 1, host, path)
         IN  IF jk[1] > 0 THEN <<i, jk[1], jk[2]>>
             ELSE tsFindIng(items, i + 1, host, path)

\* findIngressForHostPath (TS): null when nothing matches; a failed list throws
findIngressForHostPath(listing, host, path) ==
    IF listing.err THEN FoundIngress(FALSE, "list", NoIngress, "", NoPath)
    ELSE LET t == tsFindIng(listing.items, 1, host, path)
         IN  IF t[1] = 0 THEN FoundIngress(FALSE, "nomatch", NoIngress, "", NoPath)
             ELSE FoundIngress(TRUE, "", listing.items[t[1]],
                               listing.items[t[1]].rules[t[2]].host,
                               listing.items[t[1]].rules[t[2]].paths[t[3]])

-----------------------------------------------------------------------------
(* Topology resolvers: endpoints *)

Addr(ip, podName) == [IP |-> ip, PodName |-> podName]

Subset(ready, notReady) == [addresses |-> ready, notReadyAddresses |-> notReady]

SubsetPool == <<
    Subset(<<>>, <<Addr("10.0.0.1", Web1), Addr("10.0.0.2", Web2)>>),
    Subset(<<Addr("10.0.0.3", Web3)>>, <<>>),
    Subset(<<Addr("10.0.0.4", <<>>)>>, <<Addr("10.0.0.5", Web2)>>) >>

EndpointsObjects == {[subsets |-> l] : l \in SubLists(SubsetPool, MaxSubsets)}

NewEndpointHealth ==
    [ReadyCount |-> 0, NotReadyCount |-> 0, TotalEndpoints |-> 0,
     ReadyAddresses |-> <<>>, NotReadyPods |-> <<>>]

\* The two inner loops of GetServiceEndpointHealth over one subset
RECURSIVE addReady(_, _)
addReady(health, addrs) ==
    IF addrs = <<>> THEN health
    ELSE addReady([health EXCEPT !.ReadyAddresses = Append(@, Head(addrs)),
                                 !.ReadyCount = @ + 1], Tail(addrs))

RECURSIVE addNotReady(_, _)
addNotReady(health, addrs) ==
    IF addrs = <<>> THEN health
    ELSE addNotReady([health EXCEPT !.NotReadyPods = Append(@, Head(addrs)),
                                    !.NotReadyCount = @ + 1], Tail(addrs))

RECURSIVE sumSubsets(_, _)
sumSubsets(health, subsets) ==
    IF subsets = <<>> THEN health
    ELSE sumSubsets(addNotReady(addReady(health, Head(subsets).addresses),
                                Head(subsets).notReadyAddresses),
                    Tail(subsets))

GetServiceEndpointHealthTotalIsReady(ep) ==
    LET health == sumSubsets(NewEndpointHealth, ep.subsets)
    IN  [health EXCEPT !.TotalEndpoints = health.ReadyCount]

\* GetServiceEndpointHealth (Go), after a successful Get of the Endpoints
GetServiceEndpointHealth(ep) ==
    LET health == sumSubsets(NewEndpointHealth, ep.subsets)
    IN  [health EXCEPT !.TotalEndpoints = health.ReadyCount + health.NotReadyCount]

NilHealth == [ReadyCount |-> -1, NotReadyCount |-> -1, TotalEndpoints |-> -1,
              ReadyAddresses |-> <<>>, NotReadyPods |-> <<>>]

-----------------------------------------------------------------------------
(* Pods and health predicates *)

ContainerStatus(ready, waiting, terminated, restarts) ==
    [Ready |-> ready, Waiting |-> waiting, Terminated |-> terminated,
     RestartCount |-> restarts]

Container(name, cpuLimit, memLimit, readiness, liveness) ==
    [Name |-> name, cpuLimit |-> cpuLimit, memLimit |-> memLimit,
     ReadinessProbe |-> readiness, LivenessProbe |-> liveness]

Pod(name, phase, reason, statuses, containers) ==
    [Name |-> name, Phase |-> phase, Reason |-> reason,
     ContainerStatuses |-> statuses, InitContainerStatuses |-> <<>>,
     Containers |-> containers]

isPodHealthyIgnoresWaiting(p) ==
    \/ p.Phase = "Running" /\ \A i \in 1..Len(p.ContainerStatuses) :
                                 p.ContainerStatuses[i].Ready
    \/ p.Phase = "Succeeded"

\* isPodHealthy (Go): the loop returns false at the first container status that
\* is not ready or is waiting
RECURSIVE allReadyNoneWaiting(_)
allReadyNoneWaiting(statuses) ==
    IF statuses = <<>> THEN TRUE
    ELSE IF ~Head(statuses).Ready THEN FALSE
    ELSE IF Head(statuses).Waiting # "nil" THEN FALSE
    ELSE allReadyNoneWaiting(Tail(statuses))

isPodHealthy(p) ==
    IF p.Phase = "Running" THEN allReadyNoneWaiting(p.ContainerStatuses)
    ELSE IF p.Phase = "Succeeded" THEN TRUE
    ELSE FALSE

\* The loop of podPhaseReason (Go) over a list of container statuses: the
\* first status, in list order, that has a waiting reason or else a terminated
\* reason decides. A Waiting or Terminated state is "nil" when absent, else
\* its Reason (possibly "").
RECURSIVE firstStateReason(_)
firstStateReason(statuses) ==
    IF statuses = <<>> THEN ""
    ELSE LET cs == Head(statuses)
         IN  IF cs.Waiting # "nil" /\ cs.Waiting # "" THEN cs.Waiting
             ELSE IF cs.Terminated # "nil" /\ cs.Terminated # "" THEN cs.Terminated
             ELSE firstStateReason(Tail(statuses))

\* podContainerSummary (Go): (ready, total, restarts)
podContainerSummary(p) ==
    [ready    |-> Cardinality(SelectIdx(p.ContainerStatuses, LAMBDA cs : cs.Ready)),
     total    |-> Len(p.Containers),
     restarts |-> SumSeq([i \in 1..Len(p.ContainerStatuses) |->
                              p.ContainerStatuses[i].RestartCount])]

-----------------------------------------------------------------------------
(* Results the Resource Accessor can return to the request-path engines *)

Svc(name, selector, ports) == [Name |-> name, Selector |-> selector, Ports |-> ports]
NoSvc == Svc(<<>>, {}, {})

Got(err, obj) == [err |-> err, obj |-> obj]

ServiceResults(name) ==
    {Got(TRUE, NoSvc), Got(FALSE, Svc(name, {}, {80})),
     Got(FALSE, Svc(name, {"app=api"}, {80})), Got(FALSE, Svc(name, {"app=api"}, {8080}))}

EndpointsResults == {Got(TRUE, [subsets |-> <<>>])} \cup {Got(FALSE, e) : e \in EndpointsObjects}

RECURSIVE SeqsUpTo(_, _)
SeqsUpTo(S, n) ==
    IF n = 0 THEN {<<>>}
    ELSE SeqsUpTo(S, n - 1) \cup {Append(r, x) : r \in SeqsUpTo(S, n - 1), x \in S}

\* GetEventsForObject: the event types of the (sorted, truncated) list
EventResults ==
    {Listing(TRUE, <<>>)} \cup {Listing(FALSE, l) : l \in SeqsUpTo({"Warning", "Normal"}, MaxEventList)}

PodPool == <<
    Pod(Web1, "Running", "", <<ContainerStatus(TRUE, "nil", "nil", 0)>>,
        <<Container("app", 100, 100, TRUE, TRUE)>>),
    Pod(Web2, "Running", "", <<ContainerStatus(FALSE, "CrashLoopBackOff", "nil", 7)>>,
        <<Container("app", 0, 0, FALSE, FALSE)>>),
    Pod(Web3, "Pending", "", <<>>,
        <<Container("app", 100, 0, TRUE, FALSE)>>) >>

PodListings == {Listing(TRUE, <<>>)} \cup {Listing(FALSE, l) : l \in SubLists(PodPool, MaxPods)}

PodMetrics(name, cpu, mem) ==
    [Name |-> name, Containers |-> <<[Name |-> "app", cpu |-> cpu, mem |-> mem]>>]

MetricsListings ==
    {Listing(TRUE, <<>>), Listing(FALSE, <<>>),
     Listing(FALSE, <<PodMetrics(Web1, 95, 50)>>),
     Listing(FALSE, <<PodMetrics(Web1, 50, 75), PodMetrics(Web3, 10, 0)>>)}

\* GetPodsForService (Go): no list call at all for an empty selector
GetPodsForService(svc, listing) ==
    IF svc.Selector = {} THEN Listing(FALSE, <<>>) ELSE listing

\* util.HighRestartThreshold
HighRestartThreshold == 5

CountWarnings(events) == Cardinality({i \in 1..Len(events) : events[i] = "Warning"})

\* Accumulator of a loop that writes lines, counts findings and adds actions
Acc(ls, n, as) == [lines |-> ls, n |-> n, actions |-> as]

Act(what, arg) == [what |-> what, arg |-> arg]

-----------------------------------------------------------------------------
(* diagnose_request_path (Go) *)

DrpLoc ==
    [path |-> <<>>, ing |-> NoIngress, host |-> "", matchedPath |-> NoPath,
     hasTLS |-> FALSE, backendSvcName |-> <<>>, svc |-> NoSvc, svcFound |-> FALSE,
     epHealth |-> NilHealth, pods |-> <<>>,
     readyAddresses |-> 0, notReadyAddresses |-> 0]

HasTLSFor(ing, hostname) ==
    \E i \in 1..Len(ing.tls) : \E j \in 1..Len(ing.tls[i].hosts) : ing.tls[i].hosts[j] = hostname

\* [1] FIND INGRESS and the TLS check
DrpFindIngress ==
    /\ engine = "go_drp" /\ pc = "ingress"
    /\ \E first \in IngressListings, second \in IngressListings :
         /\ (input.namespace # "" \/ first.err) => second = first
         /\ LET path == IF input.path = <<>> THEN PathRoot ELSE input.path
                r    == FindIngressForHostPath(first, second, input.namespace, input.hostname, path)
                made == IF input.namespace = "" /\ ~first.err
                        THEN <<"ListIngresses", "ListIngresses">> ELSE <<"ListIngresses">>
            IN  /\ calls' = calls \o made
                /\ IF ~r.found
                   THEN /\ lines' = lines \o <<FormatFinding("CRITICAL", "no_ingress", N(0)),
                                               Section("SUGGESTED ACTIONS")>>
                        /\ loc' = [loc EXCEPT !.path = path]
                        /\ pc' = "done"
                        /\ UNCHANGED <<findings, actions>>
                   ELSE LET hasTLS == HasTLSFor(r.ing, input.hostname)
                        IN  /\ loc' = [loc EXCEPT !.path = path, !.ing = r.ing, !.host = r.host,
                                                  !.matchedPath = r.path, !.hasTLS = hasTLS]
                            /\ lines' = lines \o <<Section("[1] INGRESS")>> \o
                                   (IF hasTLS THEN <<>>
                                    ELSE <<FormatFinding("WARNING", "no_tls", N(0))>>)
                            /\ findings' = IF hasTLS THEN findings ELSE findings + 1
                            /\ actions' = IF hasTLS THEN actions
                                          ELSE Append(actions, Act("configure_tls", <<>>))
                            /\ pc' = "ingress_events"
    /\ UNCHANGED <<engine, input, fc>>

\* Ingress events, then the backend reference of the matched path
DrpIngressEvents ==
    /\ engine = "go_drp" /\ pc = "ingress_events"
    /\ \E ev \in EventResults :
         LET warningIngEvents == IF ev.err THEN 0 ELSE CountWarnings(ev.items)
             backendSvcName   == loc.matchedPath.svc
             evLines == IF warningIngEvents > 0
                        THEN <<FormatFinding("WARNING", "ingress_warning_events", N(warningIngEvents))>>
                        ELSE <<>>
         IN  /\ calls' = Append(calls, "ListEvents")
             /\ findings' = IF warningIngEvents > 0 THEN findings + 1 ELSE findings
             /\ loc' = [loc EXCEPT !.backendSvcName = backendSvcName]
             /\ IF backendSvcName = <<>>
                THEN /\ lines' = lines \o evLines \o
                                 <<FormatFinding("CRITICAL", "no_backend_service", N(0))>>
                     /\ pc' = "done"
                ELSE /\ lines' = lines \o evLines
                     /\ pc' = "service"
    /\ UNCHANGED <<engine, input, actions, fc>>

\* [2] SERVICE: early return when the backend service cannot be fetched
DrpGetService ==
    /\ engine = "go_drp" /\ pc = "service"
    /\ \E r \in ServiceResults(loc.backendSvcName) :
         /\ calls' = Append(calls, "GetService")
         /\ IF r.err
            THEN /\ lines' = lines \o <<Section("[2] SERVICE"),
                                        FormatFinding("CRITICAL", "service_not_found", N(0)),
                                        Section("SUGGESTED ACTIONS")>>
                 /\ findings' = findings + 1
                 /\ actions' = Append(actions, Act("create_service", <<>>))
                 /\ pc' = "done"
                 /\ UNCHANGED loc
            ELSE /\ lines' = Append(lines, Section("[2] SERVICE"))
                 /\ loc' = [loc EXCEPT !.svc = r.obj, !.svcFound = TRUE]
                 /\ pc' = "service_events"
                 /\ UNCHANGED <<findings, actions>>
    /\ UNCHANGED <<engine, input, fc>>

DrpServiceEvents ==
    /\ engine = "go_drp" /\ pc = "service_events"
    /\ \E ev \in EventResults :
         LET warningSvcEvents == IF ev.err THEN 0 ELSE CountWarnings(ev.items)
         IN  /\ calls' = Append(calls, "ListEvents")
             /\ IF warningSvcEvents > 0
                THEN /\ lines' = Append(lines, FormatFinding("WARNING", "service_warning_events",
                                                             N(warningSvcEvents)))
                     /\ findings' = findings + 1
                ELSE UNCHANGED <<lines, findings>>
             /\ pc' = "endpoints"
    /\ UNCHANGED <<engine, input, loc, actions, fc>>

\* [3] ENDPOINTS
DrpEndpoints ==
    /\ engine = "go_drp" /\ pc = "endpoints"
    /\ \E r \in EndpointsResults :
         /\ calls' = Append(calls, "GetEndpoints")
         /\ IF r.err
            THEN /\ lines' = lines \o <<Section("[3] ENDPOINTS"),
                                        FormatFinding("CRITICAL", "could_not_get_endpoints", N(0))>>
                 /\ findings' = findings + 1
                 /\ UNCHANGED <<loc, actions>>
            ELSE LET epHealth == GetServiceEndpointHealth(r.obj)
                 IN  /\ loc' = [loc EXCEPT !.epHealth = epHealth]
                     /\ IF epHealth.TotalEndpoints = 0
                        THEN /\ lines' = lines \o <<Section("[3] ENDPOINTS"),
                                    Text("ready_of_total", NM(epHealth.ReadyCount, epHealth.TotalEndpoints)),
                                    FormatFinding("CRITICAL", "zero_endpoints", N(0))>>
                             /\ findings' = findings + 1
                             /\ actions' = Append(actions, Act("check_pods_exist", <<>>))
                        ELSE IF epHealth.NotReadyCount > 0
                        THEN /\ lines' = lines \o <<Section("[3] ENDPOINTS"),
                                    Text("ready_of_total", NM(epHealth.ReadyCount, epHealth.TotalEndpoints)),
                                    FormatFinding("WARNING", "endpoints_not_ready",
                                                  N(epHealth.NotReadyCount))>>
                             /\ findings' = findings + 1
                             /\ UNCHANGED actions
                        ELSE /\ lines' = lines \o <<Section("[3] ENDPOINTS"),
                                    Text("ready_of_total", NM(epHealth.ReadyCount, epHealth.TotalEndpoints))>>
                             /\ UNCHANGED <<findings, actions>>
         /\ pc' = "pods"
    /\ UNCHANGED <<engine, input, fc>>

\* usage / limit * 100 >= t and > t, on the exact quotient
PctGE(usage, limit, t) == usage * 100 >= t * limit
PctGT(usage, limit, t) == usage * 100 > t * limit

\* "Check resource limits" loop of one pod
RECURSIVE drpCheckLimits(_, _, _)
drpCheckLimits(acc, p, cs) ==
    IF cs = <<>> THEN acc
    ELSE LET c == Head(cs)
         IN  drpCheckLimits(
                 IF c.cpuLimit = 0 /\ c.memLimit = 0
                 THEN Acc(Append(acc.lines, FormatFinding("INFO", "no_resource_limits", Named(p.Name))),
                          acc.n + 1, acc.actions)
                 ELSE acc,
                 p, Tail(cs))

\* "Check probe config" loop of one pod
RECURSIVE drpCheckProbes(_, _, _)
drpCheckProbes(acc, p, cs) ==
    IF cs = <<>> THEN acc
    ELSE LET c  == Head(cs)
             a1 == IF ~c.ReadinessProbe
                   THEN Acc(Append(acc.lines, FormatFinding("WARNING", "no_readiness_probe", Named(p.Name))),
                            acc.n + 1, Append(acc.actions, Act("add_readiness_probe", <<c.Name>>)))
                   ELSE acc
             a2 == IF ~c.LivenessProbe
                   THEN Acc(Append(a1.lines, FormatFinding("INFO", "no_liveness_probe", Named(p.Name))),
                            a1.n, a1.actions)
                   ELSE a1
         IN  drpCheckProbes(a2, p, Tail(cs))

drpCheckPodsSkipped(acc, pods) == acc

\* "Check each pod's health" loop
RECURSIVE drpCheckPods(_, _)
drpCheckPods(acc, pods) ==
    IF pods = <<>> THEN acc
    ELSE LET p  == Head(pods)
             a1 == IF ~isPodHealthy(p)
                   THEN Acc(Append(acc.lines, FormatFinding("CRITICAL", "pod_unhealthy", Named(p.Name))),
                            acc.n + 1, Append(acc.actions, Act("diagnose_pod", p.Name)))
                   ELSE acc
             a2 == IF podContainerSummary(p).restarts > HighRestartThreshold
                   THEN Acc(Append(a1.lines, FormatFinding("WARNING", "pod_restarts",
                                       NamedN(p.Name, podContainerSummary(p).restarts))),
                            a1.n + 1, a1.actions)
                   ELSE a1
             a3 == drpCheckLimits(a2, p, p.Containers)
             a4 == drpCheckProbes(a3, p, p.Containers)
         IN  drpCheckPods(a4, Tail(pods))

\* Backing pods of the service
DrpPods ==
    /\ engine = "go_drp" /\ pc = "pods"
    /\ \E listing \in PodListings :
         /\ loc.svc.Selector = {} => listing = Listing(FALSE, <<>>)
         /\ LET r    == GetPodsForService(loc.svc, listing)
                pods == IF r.err THEN <<>> ELSE r.items
                acc  == IF ~r.err /\ Len(pods) > 0
                        THEN drpCheckPods(Acc(Append(lines, Section("PODS")), findings, actions), pods)
                        ELSE Acc(lines, findings, actions)
            IN  /\ calls' = IF loc.svc.Selector = {} THEN calls ELSE Append(calls, "ListPods")
                /\ loc' = [loc EXCEPT !.pods = pods]
                /\ lines' = acc.lines
                /\ findings' = acc.n
                /\ actions' = acc.actions
                /\ pc' = "usage"
    /\ UNCHANGED <<engine, input, fc>>

\* podMetricsMap[name]: the entry of the last PodMetrics with that name, or 0
LastIndexNamed(list, name) ==
    LET S == {i \in 1..Len(list) : list[i].Name = name}
    IN  IF S = {} THEN 0 ELSE CHOOSE i \in S : \A j \in S : j <= i

\* The per-container body of the [4] RESOURCE USAGE loop
drpUsageContainer(acc, p, c, usage) ==
    LET a1 == IF c.cpuLimit > 0 /\ PctGE(usage.cpu, c.cpuLimit, 90)
              THEN Acc(Append(acc.lines, FormatFinding("CRITICAL", "cpu_of_limit", Named(p.Name))),
                       acc.n + 1, acc.actions)
              ELSE IF c.cpuLimit > 0 /\ PctGE(usage.cpu, c.cpuLimit, 70)
              THEN Acc(Append(acc.lines, FormatFinding("WARNING", "cpu_of_limit", Named(p.Name))),
                       acc.n + 1, acc.actions)
              ELSE acc
        a2 == IF c.memLimit > 0 /\ PctGE(usage.mem, c.memLimit, 90)
              THEN Acc(Append(a1.lines, FormatFinding("CRITICAL", "memory_of_limit", Named(p.Name))),
                       a1.n + 1, Append(a1.actions, Act("increase_memory_limit", p.Name)))
              ELSE IF c.memLimit > 0 /\ PctGE(usage.mem, c.memLimit, 70)
              THEN Acc(Append(a1.lines, FormatFinding("WARNING", "memory_of_limit", Named(p.Name))),
                       a1.n + 1, a1.actions)
              ELSE a1
    IN  Acc(Append(a2.lines, Text("usage", NamedN(p.Name, usage.cpu))), a2.n, a2.actions)

RECURSIVE drpUsageContainers(_, _, _, _)
drpUsageContainers(acc, p, cs, cm) ==
    IF cs = <<>> THEN acc
    ELSE LET k == LastIndexNamed(cm, Head(cs).Name)
         IN  drpUsageContainers(
                 IF k = 0 THEN acc ELSE drpUsageContainer(acc, p, Head(cs), cm[k]),
                 p, Tail(cs), cm)

RECURSIVE drpUsagePods(_, _, _)
drpUsagePods(acc, pods, podMetrics) ==
    IF pods = <<>> THEN acc
    ELSE LET k == LastIndexNamed(podMetrics, Head(pods).Name)
         IN  drpUsagePods(
                 IF k = 0 THEN acc
                 ELSE drpUsageContainers(acc, Head(pods), Head(pods).Containers,
                                         podMetrics[k].Containers),
                 Tail(pods), podMetrics)

\* [4] RESOURCE USAGE
DrpUsage ==
    /\ engine = "go_drp" /\ pc = "usage"
    /\ \E m \in MetricsListings :
         LET start == Acc(Append(lines, Section("[4] RESOURCE USAGE")), findings, actions)
             acc   == IF m.err
                      THEN Acc(Append(start.lines, Text("metrics_unavailable", N(0))),
                               findings, actions)
                      ELSE IF Len(loc.pods) > 0 THEN drpUsagePods(start, loc.pods, m.items)
                      ELSE start
         IN  /\ calls' = Append(calls, "GetPodMetrics")
             /\ lines' = acc.lines
             /\ findings' = acc.n
             /\ actions' = acc.actions
             /\ pc' = "summary"
    /\ UNCHANGED <<engine, input, loc, fc>>

PodPrefix == <<"p", "o", "d", "_">>
IdInternet == <<"i", "n", "t", "e", "r", "n", "e", "t">>
IdAgw == <<"a", "g", "w">>
IdSvc == <<"s", "v", "c">>

\* The pod loop of the topology diagram
RECURSIVE drpPodNodes(_, _)
drpPodNodes(f, pods) ==
    IF pods = <<>> THEN f
    ELSE LET p     == Head(pods)
             podID == SafeID(PodPrefix \o p.Name)
             f1    == AddEdge(AddNode(f, podID, p.Name), IdSvc, podID, <<>>)
             f2    == IF ~isPodHealthy(p) THEN AddStyle(f1, podID, "critical")
                      ELSE AddStyle(f1, podID, "healthy")
         IN  drpPodNodes(f2, Tail(pods))

drpTopology(pods) ==
    LET f1 == AddNode(AddNode(AddNode(NewFlowchart, IdInternet, <<"Internet">>),
                              IdAgw, loc.ing.name), IdSvc, loc.backendSvcName)
        f2 == AddEdge(AddEdge(f1, IdInternet, IdAgw, <<"HTTPS">>), IdAgw, IdSvc, <<>>)
        f3 == AddRawStyle(f2, IdAgw, "fill:#cce5ff")
    IN  drpPodNodes(f3, pods)

\* SUMMARY, SUGGESTED ACTIONS and the diagrams
DrpSummary ==
    /\ engine = "go_drp" /\ pc = "summary"
    /\ lines' = lines \o <<Section("Summary"),
                           IF findings = 0 THEN Text("healthy", N(0))
                           ELSE Text("findings_across_path", N(findings))>>
                      \o (IF Len(actions) > 0 THEN <<Section("SUGGESTED ACTIONS")>> ELSE <<>>)
                      \o <<Section("TOPOLOGY"), Section("REQUEST FLOW")>>
    /\ fc' = drpTopology(loc.pods)
    /\ pc' = "done"
    /\ UNCHANGED <<engine, input, loc, findings, actions, calls>>

-----------------------------------------------------------------------------
(* DiagnoseRequestPathTool.invoke (TS) *)

\* isPodHealthy of the extension (k8s/pods.ts)
tsIsPodHealthy(p) == isPodHealthy(p)

\* "Init:" + reason
InitPrefixed(reason) ==
    CASE reason = "PodInitializing" -> "Init:PodInitializing"
      [] reason = "CrashLoopBackOff" -> "Init:CrashLoopBackOff"
      [] reason = "Completed" -> "Init:Completed"
      [] reason = "Error" -> "Init:Error"
      [] OTHER -> "Init:"

\* podPhaseReason: the first reason of the container statuses, else the first
\* reason of the init container statuses with the prefix "Init:", else the
\* pod's status reason, else its phase
podPhaseReason(p) ==
    LET r == firstStateReason(p.ContainerStatuses)
        i == firstStateReason(p.InitContainerStatuses)
    IN  IF r # "" THEN r
        ELSE IF i # "" THEN InitPrefixed(i)
        ELSE IF p.Reason # "" THEN p.Reason ELSE p.Phase

Red    == "#FF6B6B"
Yellow == "#FFD700"
Green  == "#90EE90"

IdClient == <<"C", "l", "i", "e", "n", "t">>
IdNoPods == <<"N", "o", "P", "o", "d", "s">>
IdClients == <<"C", "l", "i", "e", "n", "t", "s">>

\* [1] INGRESS LAYER
TsFindIngress ==
    /\ engine = "ts_drp" /\ pc = "ingress"
    /\ \E listing \in IngressListings :
         LET path  == IF input.path = <<>> THEN PathRoot ELSE input.path
             match == findIngressForHostPath(listing, input.hostname, path)
         IN  /\ calls' = Append(calls, "ListIngresses")
             /\ IF listing.err
                THEN /\ lines' = <<Text("error", N(0))>>
                     /\ loc' = [loc EXCEPT !.path = path]
                     /\ pc' = "done"
                     /\ UNCHANGED findings
                ELSE IF ~match.found
                THEN /\ findings' = Append(findings, FormatFinding("CRITICAL", "no_ingress", N(0)))
                     /\ lines' = lines \o <<Section("[1] INGRESS LAYER"), Section("FINDINGS"),
                                            FormatFinding("CRITICAL", "no_ingress", N(0)),
                                            Section("SUGGESTED ACTIONS")>>
                     /\ loc' = [loc EXCEPT !.path = path]
                     /\ pc' = "done"
                ELSE /\ loc' = [loc EXCEPT !.path = path, !.ing = match.ing, !.host = match.host,
                                           !.matchedPath = match.path,
                                           !.backendSvcName = match.path.svc,
                                           !.hasTLS = HasTLSFor(match.ing, input.hostname)]
                     /\ lines' = Append(lines, Section("[1] INGRESS LAYER"))
                     /\ pc' = "ingress_events"
                     /\ UNCHANGED findings
    /\ UNCHANGED <<engine, input, actions, fc>>

TsIngressEvents ==
    /\ engine = "ts_drp" /\ pc = "ingress_events"
    /\ \E ev \in EventResults :
         LET warnings == IF ev.err THEN 0 ELSE CountWarnings(ev.items)
         IN  /\ calls' = Append(calls, "ListEvents")
             /\ findings' = IF warnings > 0
                            THEN Append(findings, FormatFinding("WARNING", "ingress_warning_events",
                                                                N(warnings)))
                            ELSE findings
             /\ lines' = lines \o <<IF ev.err THEN Text("events_could_not_fetch", N(0))
                                    ELSE Text("events", N(warnings)),
                                    Section("[2] SERVICE LAYER")>>
             /\ pc' = "service"
    /\ UNCHANGED <<engine, input, loc, actions, fc>>

\* [2] SERVICE LAYER: a failed getService is caught and the tool goes on
TsGetService ==
    /\ engine = "ts_drp" /\ pc = "service"
    /\ \E r \in ServiceResults(loc.backendSvcName) :
         /\ calls' = Append(calls, "GetService")
         /\ IF r.err
            THEN /\ lines' = lines \o <<Text("service_NOT_FOUND", N(0)),
                                        Section("[3] ENDPOINT & POD LAYER")>>
                 /\ findings' = Append(findings, FormatFinding("CRITICAL", "service_not_found", N(0)))
                 /\ pc' = "endpoints"
                 /\ UNCHANGED loc
            ELSE /\ lines' = Append(lines, Text("service", N(0)))
                 /\ loc' = [loc EXCEPT !.svc = r.obj, !.svcFound = TRUE]
                 /\ findings' = IF r.obj.Selector = {}
                                THEN Append(findings, FormatFinding("WARNING", "no_selector", N(0)))
                                ELSE findings
                 /\ pc' = "service_events"
    /\ UNCHANGED <<engine, input, actions, fc>>

TsServiceEvents ==
    /\ engine = "ts_drp" /\ pc = "service_events"
    /\ \E ev \in EventResults :
         /\ calls' = Append(calls, "ListEvents")
         /\ lines' = lines \o <<IF ev.err THEN Text("events_could_not_fetch", N(0))
                                ELSE Text("events", N(CountWarnings(ev.items))),
                                Section("[3] ENDPOINT & POD LAYER")>>
         /\ pc' = "endpoints"
    /\ UNCHANGED <<engine, input, loc, findings, actions, fc>>

\* The endpoint half of [3] ENDPOINT & POD LAYER
TsEndpoints ==
    /\ engine = "ts_drp" /\ pc = "endpoints"
    /\ \E r \in EndpointsResults :
         /\ calls' = Append(calls, "GetEndpoints")
         /\ IF r.err
            THEN /\ lines' = Append(lines, Text("endpoints_could_not_fetch", N(0)))
                 /\ UNCHANGED <<loc, findings>>
            ELSE LET readyAddresses    == SumSeq([i \in 1..Len(r.obj.subsets) |->
                                                      Len(r.obj.subsets[i].addresses)])
                     notReadyAddresses == SumSeq([i \in 1..Len(r.obj.subsets) |->
                                                      Len(r.obj.subsets[i].notReadyAddresses)])
                 IN  /\ loc' = [loc EXCEPT !.readyAddresses = readyAddresses,
                                           !.notReadyAddresses = notReadyAddresses]
                     /\ lines' = Append(lines, Text("endpoints_ready_notready",
                                                    NM(readyAddresses, notReadyAddresses)))
                     /\ findings' =
                            IF readyAddresses = 0 /\ notReadyAddresses = 0
                            THEN Append(findings, FormatFinding("CRITICAL", "no_endpoints", N(0)))
                            ELSE IF notReadyAddresses > 0
                            THEN Append(findings, FormatFinding("WARNING", "endpoints_not_ready",
                                                                N(notReadyAddresses)))
                            ELSE findings
         /\ pc' = "pods"
    /\ UNCHANGED <<engine, input, actions, fc>>

\* The per-pod loop of "Pod Status"
RECURSIVE tsCheckPods(_, _)
tsCheckPods(fs, pods) ==
    IF pods = <<>> THEN fs
    ELSE LET pod == Head(pods)
             f1  == IF ~tsIsPodHealthy(pod)
                    THEN Append(fs, FormatFinding("WARNING", "pod_unhealthy", Named(pod.Name)))
                    ELSE fs
             f2  == IF podContainerSummary(pod).restarts > 5
                    THEN Append(f1, FormatFinding("WARNING", "pod_restarts",
                                                  NamedN(pod.Name, podContainerSummary(pod).restarts)))
                    ELSE f1
         IN  tsCheckPods(f2, Tail(pods))

\* The pod half of [3]: only for a service that was found and has a selector
TsPods ==
    /\ engine = "ts_drp" /\ pc = "pods"
    /\ IF loc.svcFound /\ loc.svc.Selector # {}
       THEN \E listing \in PodListings :
              /\ calls' = Append(calls, "ListPods")
              /\ IF listing.err
                 THEN /\ lines' = lines \o <<Text("pods_could_not_fetch", N(0)),
                                             Section("[4] RESOURCE USAGE")>>
                      /\ UNCHANGED <<loc, findings>>
                 ELSE /\ loc' = [loc EXCEPT !.pods = listing.items]
                      /\ lines' = lines \o <<Text("pods", N(Len(listing.items))),
                                             Section("[4] RESOURCE USAGE")>>
                      /\ findings' = IF Len(listing.items) = 0
                                     THEN Append(findings,
                                                 FormatFinding("CRITICAL", "no_pods_match", N(0)))
                                     ELSE tsCheckPods(findings, listing.items)
       ELSE /\ lines' = Append(lines, Section("[4] RESOURCE USAGE"))
            /\ UNCHANGED <<loc, findings, calls>>
    /\ pc' = "usage"
    /\ UNCHANGED <<engine, input, actions, fc>>

\* The per-pod loop of [4] RESOURCE USAGE: usage and limits summed over containers
RECURSIVE tsUsagePods(_, _, _)
tsUsagePods(fs, pods, podMetrics) ==
    IF pods = <<>> THEN fs
    ELSE LET pod == Head(pods)
             k   == LastIndexNamed(podMetrics, pod.Name)
             pm  == podMetrics[k]
             totalCpuUsage == SumSeq([i \in 1..Len(pm.Containers) |-> pm.Containers[i].cpu])
             totalMemUsage == SumSeq([i \in 1..Len(pm.Containers) |-> pm.Containers[i].mem])
             totalCpuLimit == SumSeq([i \in 1..Len(pod.Containers) |-> pod.Containers[i].cpuLimit])
             totalMemLimit == SumSeq([i \in 1..Len(pod.Containers) |-> pod.Containers[i].memLimit])
             hasLimits == \E i \in 1..Len(pod.Containers) :
                             pod.Containers[i].cpuLimit # 0 \/ pod.Containers[i].memLimit # 0
             f1 == IF totalCpuLimit > 0 /\ PctGT(totalCpuUsage, totalCpuLimit, 90)
                   THEN Append(fs, FormatFinding("WARNING", "cpu_above_90_of_limit", Named(pod.Name)))
                   ELSE fs
             f2 == IF totalMemLimit > 0 /\ PctGT(totalMemUsage, totalMemLimit, 90)
                   THEN Append(f1, FormatFinding("CRITICAL", "memory_above_90_of_limit",
                                                 Named(pod.Name)))
                   ELSE f1
         IN  tsUsagePods(
                 IF k = 0 THEN fs
                 ELSE IF hasLimits THEN f2
                 ELSE Append(fs, FormatFinding("INFO", "no_resource_limits", Named(pod.Name))),
                 Tail(pods), podMetrics)

\* [4] RESOURCE USAGE
TsUsage ==
    /\ engine = "ts_drp" /\ pc = "usage"
    /\ \E m \in MetricsListings :
         /\ calls' = Append(calls, "GetPodMetrics")
         /\ findings' = IF ~m.err /\ Len(loc.pods) > 0 THEN tsUsagePods(findings, loc.pods, m.items)
                        ELSE IF m.err
                        THEN Append(findings, FormatFinding("INFO", "metrics_unavailable", N(0)))
                        ELSE findings
         /\ lines' = Append(lines, IF m.err THEN Text("metrics_unavailable", N(0))
                                   ELSE Text("usage", N(Len(loc.pods))))
         /\ pc' = "summary"
    /\ UNCHANGED <<engine, input, loc, actions, fc>>

\* The pod loop of the TS topology diagram
RECURSIVE tsPodNodes(_, _, _)
tsPodNodes(f, svcId, pods) ==
    IF pods = <<>> THEN f
    ELSE LET pod      == Head(pods)
             podId    == mermaidSafeId(pod.Name)
             podColor == IF tsIsPodHealthy(pod) THEN Green
                         ELSE IF podPhaseReason(pod) = "CrashLoopBackOff" THEN Red ELSE Yellow
         IN  tsPodNodes(AddRawStyle(AddEdge(f, svcId, podId, <<>>), podId, podColor),
                        svcId, Tail(pods))

\* `findings.some(f => f.includes('NOT FOUND'))`: the text of the missing-service
\* finding says "not found", the text of no finding says "NOT FOUND"
IncludesNOTFOUND(f) == FALSE

tsTopology ==
    LET ingId    == mermaidSafeId(loc.ing.name)
        svcId    == mermaidSafeId(loc.backendSvcName)
        ingColor == Green
        svcColor == IF ~loc.svcFound \/ \E i \in 1..Len(findings) : IncludesNOTFOUND(findings[i])
                    THEN Red
                    ELSE IF \E i \in 1..Len(findings) : findings[i].what = "no_selector"
                    THEN Yellow
                    ELSE Green
        f1 == AddEdge(AddEdge(NewFlowchart, IdClient, ingId, <<>>), ingId, svcId, <<>>)
        f2 == IF Len(loc.pods) > 0 THEN tsPodNodes(f1, svcId, loc.pods)
              ELSE AddRawStyle(AddEdge(f1, svcId, IdNoPods, <<>>), IdNoPods, Red)
    IN  AddRawStyle(AddRawStyle(f2, ingId, ingColor), svcId, svcColor)

\* FINDINGS, SUGGESTED ACTIONS and the diagrams
TsSummary ==
    /\ engine = "ts_drp" /\ pc = "summary"
    /\ lines' = lines \o <<Section("FINDINGS")>>
                      \o (IF Len(findings) = 0 THEN <<Text("healthy", N(0))>> ELSE findings)
                      \o <<Section("SUGGESTED ACTIONS"), Section("TOPOLOGY"), Section("REQUEST FLOW")>>
    /\ fc' = tsTopology
    /\ pc' = "done"
    /\ UNCHANGED <<engine, input, loc, findings, actions, calls>>

-----------------------------------------------------------------------------
(* trace_ingress_to_backend (Go) *)

\* [1] INGRESS: the lookup is always cluster-wide (namespace "")
TrFindIngress ==
    /\ engine = "go_trace" /\ pc = "ingress"
    /\ \E first \in IngressListings, second \in IngressListings :
         /\ first.err => second = first
         /\ LET path == IF input.path = <<>> THEN PathRoot ELSE input.path
                r    == FindIngressForHostPath(first, second, "", input.hostname, path)
            IN  /\ calls' = calls \o (IF first.err THEN <<"ListIngresses">>
                                      ELSE <<"ListIngresses", "ListIngresses">>)
                /\ IF ~r.found
                   THEN /\ lines' = lines \o <<Section("[1] INGRESS"),
                                               FormatFinding("CRITICAL", "no_ingress", N(0)),
                                               Section("SUGGESTED ACTIONS")>>
                        /\ loc' = [loc EXCEPT !.path = path]
                        /\ pc' = "done"
                   ELSE LET hasTLS == HasTLSFor(r.ing, input.hostname)
                        IN  /\ loc' = [loc EXCEPT !.path = path, !.ing = r.ing, !.host = r.host,
                                                  !.matchedPath = r.path, !.hasTLS = hasTLS]
                            /\ lines' = lines \o <<Section("[1] INGRESS")>> \o
                                   (IF hasTLS THEN <<>>
                                    ELSE <<FormatFinding("INFO", "no_tls", N(0))>>)
                            /\ pc' = "service"
    /\ UNCHANGED <<engine, input, findings, actions, fc>>

\* [2] SERVICE: a failed GetService is a finding, and the trace goes on
TrGetService ==
    /\ engine = "go_trace" /\ pc = "service"
    /\ IF loc.matchedPath.svc = <<>>
       THEN /\ lines' = lines \o <<Section("[2] SERVICE"),
                                   FormatFinding("CRITICAL", "no_backend_service", N(0))>>
            /\ findings' = findings + 1
            /\ pc' = "done"
            /\ UNCHANGED <<loc, calls>>
       ELSE \E r \in ServiceResults(loc.matchedPath.svc) :
              /\ calls' = Append(calls, "GetService")
              /\ pc' = "endpoints"
              /\ IF r.err
                 THEN /\ lines' = lines \o <<Section("[2] SERVICE"),
                                             FormatFinding("CRITICAL", "service_not_found", N(0))>>
                      /\ findings' = findings + 1
                      /\ loc' = [loc EXCEPT !.backendSvcName = loc.matchedPath.svc]
                 ELSE LET portValid == loc.matchedPath.port \in r.obj.Ports
                      IN  /\ loc' = [loc EXCEPT !.backendSvcName = loc.matchedPath.svc,
                                                !.svc = r.obj, !.svcFound = TRUE]
                          /\ lines' = lines \o <<Section("[2] SERVICE")>> \o
                                 (IF portValid THEN <<>>
                                  ELSE <<FormatFinding("WARNING", "port_mismatch", N(loc.matchedPath.port))>>)
                          /\ findings' = IF portValid THEN findings ELSE findings + 1
    /\ UNCHANGED <<engine, input, actions, fc>>

\* [3] ENDPOINTS / PODS: the endpoint health
TrEndpoints ==
    /\ engine = "go_trace" /\ pc = "endpoints"
    /\ \E r \in EndpointsResults :
         /\ calls' = Append(calls, "GetEndpoints")
         /\ IF r.err
            THEN /\ lines' = lines \o <<Section("[3] ENDPOINTS / PODS"),
                                        FormatFinding("WARNING", "could_not_get_endpoints", N(0))>>
                 /\ findings' = findings + 1
                 /\ UNCHANGED loc
            ELSE LET health == GetServiceEndpointHealth(r.obj)
                 IN  /\ loc' = [loc EXCEPT !.epHealth = health]
                     /\ lines' = lines \o <<Section("[3] ENDPOINTS / PODS"),
                                            Text("ready_of_total",
                                                 NM(health.ReadyCount, health.TotalEndpoints))>> \o
                            (IF health.TotalEndpoints = 0
                             THEN <<FormatFinding("CRITICAL", "zero_endpoints", N(0))>>
                             ELSE IF health.NotReadyCount > 0
                             THEN <<FormatFinding("WARNING", "endpoints_not_ready",
                                                  N(health.NotReadyCount))>>
                             ELSE <<>>)
                     /\ findings' = IF health.TotalEndpoints = 0 \/ health.NotReadyCount > 0
                                    THEN findings + 1 ELSE findings
         /\ pc' = "pods"
    /\ UNCHANGED <<engine, input, actions, fc>>

\* The "Pod health detail" loop
RECURSIVE trCheckPods(_, _)
trCheckPods(acc, pods) ==
    IF pods = <<>> THEN acc
    ELSE LET p  == Head(pods)
             a1 == IF ~isPodHealthy(p)
                   THEN Acc(Append(acc.lines, FormatFinding("WARNING", "pod_unhealthy", Named(p.Name))),
                            acc.n + 1, acc.actions)
                   ELSE acc
             a2 == IF podContainerSummary(p).restarts > HighRestartThreshold
                   THEN Acc(Append(a1.lines, FormatFinding("WARNING", "pod_restarts",
                                       NamedN(p.Name, podContainerSummary(p).restarts))),
                            a1.n + 1, a1.actions)
                   ELSE a1
         IN  trCheckPods(a2, Tail(pods))

\* Pod health detail and the best-effort metrics, only when the service exists
TrPods ==
    /\ engine = "go_trace" /\ pc = "pods"
    /\ IF ~loc.svcFound
       THEN UNCHANGED <<loc, lines, findings, calls>>
       ELSE \E listing \in PodListings, m \in MetricsListings :
              /\ loc.svc.Selector = {} => (listing = Listing(FALSE, <<>>) /\ m = Listing(FALSE, <<>>))
              /\ LET r    == GetPodsForService(loc.svc, listing)
                     pods == IF r.err THEN <<>> ELSE r.items
                     acc  == IF ~r.err /\ Len(pods) > 0
                             THEN trCheckPods(Acc(Append(lines, Section("Pod Health")),
                                                  findings, actions), pods)
                             ELSE Acc(lines, findings, actions)
                 IN  /\ calls' = IF loc.svc.Selector = {} THEN calls
                                 ELSE calls \o <<"ListPods", "GetPodMetrics">>
                     /\ loc' = [loc EXCEPT !.pods = pods]
                     /\ lines' = IF loc.svc.Selector # {} /\ ~m.err /\ Len(m.items) > 0
                                 THEN Append(acc.lines, Section("Pod Metrics"))
                                 ELSE acc.lines
                     /\ findings' = acc.n
    /\ pc' = "summary"
    /\ UNCHANGED <<engine, input, actions, fc>>

\* Assessment and the sequence diagram
TrAssessment ==
    /\ engine = "go_trace" /\ pc = "summary"
    /\ lines' = lines \o <<Section("Assessment"),
                           IF findings = 0 THEN Text("healthy", N(0))
                           ELSE Text("issues_found", N(findings)),
                           Section("REQUEST FLOW DIAGRAM")>>
    /\ pc' = "done"
    /\ UNCHANGED <<engine, input, loc, findings, actions, fc, calls>>

-----------------------------------------------------------------------------
(* The request-path engines: one invocation against one cluster *)

PathEngines == {"go_drp", "ts_drp", "go_trace"}

PathInputs ==
    [hostname : {Host}, path : {<<>>, PathV1, PathV1X}, namespace : {"", "prod"}]

InitPath ==
    /\ engine \in PathEngines
    /\ input \in PathInputs
    /\ engine = "go_trace" => input.namespace = ""
    /\ pc = "ingress"
    /\ loc = DrpLoc
    /\ lines = <<>>
    /\ findings = IF engine = "ts_drp" THEN <<>> ELSE 0
    /\ actions = <<>>
    /\ fc = NewFlowchart
    /\ calls = <<>>

NextPath ==
    \/ DrpFindIngress \/ DrpIngressEvents \/ DrpGetService \/ DrpServiceEvents
    \/ DrpEndpoints \/ DrpPods \/ DrpUsage \/ DrpSummary
    \/ TsFindIngress \/ TsIngressEvents \/ TsGetService \/ TsServiceEvents
    \/ TsEndpoints \/ TsPods \/ TsUsage \/ TsSummary
    \/ TrFindIngress \/ TrGetService \/ TrEndpoints \/ TrPods \/ TrAssessment

SpecPath == InitPath /\ [][NextPath]_vars

-----------------------------------------------------------------------------
(* Properties of the request-path engines *)

\* The findings the run has reported so far
ReportedFindings == IF engine = "ts_drp" THEN findings ELSE FindingLines(lines)

HasFinding(what) == \E i \in 1..Len(ReportedFindings) : ReportedFindings[i].what = what

HasFindingFor(what, name) ==
    \E i \in 1..Len(ReportedFindings) :
        ReportedFindings[i].what = what /\ ReportedFindings[i].arg.name = name

IsPrefixOf(s, t) == Len(s) <= Len(t) /\ SubSeq(t, 1, Len(s)) = s

\* The accessor calls made after the (first) GetService call
CallsAfterService ==
    LET S == {i \in 1..Len(calls) : calls[i] = "GetService"}
    IN  IF S = {} THEN <<>>
        ELSE SubSeq(calls, (CHOOSE i \in S : \A j \in S : i <= j) + 1, Len(calls))

LaterStageCalls == {"GetEndpoints", "ListPods", "GetPodMetrics"}

\* C1: when the backend service of the matched path does not exist, the trace
\* exits early: after the Critical finding for the missing service no endpoint,
\* pod or resource-usage stage runs, and the findings recorded before the exit
\* are still in the returned report.
C1_ExitsEarlyOnMissingService ==
    (engine \in PathEngines /\ HasFinding("service_not_found")) =>
        /\ Range(calls) \cap LaterStageCalls = {}
        /\ (engine = "go_drp" /\ ~loc.hasTLS) => HasFinding("no_tls")

\* The stages that follow a found service, as accessor calls, in order
StagesAfterService ==
    <<"ListEvents", "GetEndpoints">>
        \o (IF loc.svc.Selector # {} THEN <<"ListPods">> ELSE <<>>)
        \o <<"GetPodMetrics">>

\* The Go finding lines that the `findings` counter counts
CountedFindings ==
    Cardinality({i \in 1..Len(lines) :
                    IsFinding(lines[i]) /\ lines[i].what # "no_liveness_probe"})

\* C2: once the ingress and its backend service are found, diagnose_request_path
\* runs the remaining stages (service events, endpoints, pods, resource usage,
\* summary) in order whatever an intermediate stage reports - the pods are
\* still listed when the service has zero endpoints - and the findings of
\* every stage are in the final report.
C2_ContinuesThroughAllStages ==
    (engine \in {"go_drp", "ts_drp"} /\ loc.svcFound) =>
        /\ IsPrefixOf(CallsAfterService, StagesAfterService)
        /\ pc = "done" =>
             /\ CallsAfterService = StagesAfterService
             /\ \A i \in 1..Len(loc.pods) :
                    ~isPodHealthy(loc.pods[i]) => HasFindingFor("pod_unhealthy", loc.pods[i].Name)
             /\ engine = "go_drp" =>
                    /\ loc.epHealth.TotalEndpoints = 0 => HasFinding("zero_endpoints")
                    /\ loc.epHealth.NotReadyCount > 0 /\ loc.epHealth.TotalEndpoints > 0
                           => HasFinding("endpoints_not_ready")
                    /\ findings = CountedFindings
                    /\ findings > 0 => Text("findings_across_path", N(findings)) \in Range(lines)
             /\ engine = "ts_drp" =>
                    /\ Text("endpoints_ready_notready", NM(0, 0)) \in Range(lines)
                           => HasFinding("no_endpoints")
                    /\ \A i \in 1..Len(findings) : findings[i] \in Range(lines)

\* A finished Go trace that found zero endpoints and still listed and checked
\* the pods and the resource usage
C2_Witness ==
    /\ engine = "go_drp" /\ pc = "done" /\ loc.svcFound
    /\ loc.epHealth.TotalEndpoints = 0 /\ HasFinding("zero_endpoints")
    /\ Len(loc.pods) > 0 /\ HasFinding("pod_unhealthy")
    /\ CallsAfterService = <<"ListEvents", "GetEndpoints", "ListPods", "GetPodMetrics">>

NonHealthySeverities == {"critical", "warning", Red, Yellow}

\* The scenario of C3: api.example.com, /v1 Prefix -> api, 0 ready and 2 not
\* ready endpoints
ZeroReadyTwoNotReady ==
    IF engine = "go_drp"
    THEN loc.epHealth.ReadyCount = 0 /\ loc.epHealth.NotReadyCount = 2
    ELSE loc.readyAddresses = 0 /\ loc.notReadyAddresses = 2

ServiceNodeId == IF engine = "go_drp" THEN IdSvc ELSE mermaidSafeId(loc.backendSvcName)

\* C3: in a finished request-path trace for the Ingress api.example.com /v1
\* (Prefix) whose backend service has 0 ready and 2 not-ready endpoints, the
\* service node of the topology graph has a non-healthy style.
C3_ServiceNodeStyledNonHealthy ==
    (/\ engine \in {"go_drp", "ts_drp"} /\ pc = "done" /\ loc.svcFound
     /\ input.hostname = Host
     /\ loc.matchedPath = HTTPPath(PathV1, "Prefix", SvcApi)
     /\ ZeroReadyTwoNotReady)
        => StylesOf(fc, ServiceNodeId) \cap NonHealthySeverities # {}

-----------------------------------------------------------------------------
(* The pure resolvers and predicates, applied to inputs of bounded size *)

PodPhases == {"Pending", "Running", "Succeeded", "Failed", "Unknown"}

StatusPool ==
    {ContainerStatus(r, w, "nil", 0) : r \in BOOLEAN, w \in {"nil", "", "CrashLoopBackOff"}}

HealthPods ==
    {Pod(Web1, phase, "", statuses, <<>>) :
        phase \in PodPhases, statuses \in SeqsUpTo(StatusPool, MaxContainers)}

PathPool == {PathRoot, PathV, PathV1, PathV1X}

MatchInputs ==
    [pattern : PathPool, path : PathPool,
     pathType : {"Exact", "Prefix", "ImplementationSpecific"}]

\* Container states: none, waiting or terminated, with or without a reason
ReasonStatusPool ==
    {ContainerStatus(FALSE, "CrashLoopBackOff", "nil", 0), ContainerStatus(FALSE, "", "nil", 0),
     ContainerStatus(FALSE, "nil", "Completed", 0), ContainerStatus(FALSE, "nil", "", 0),
     ContainerStatus(TRUE, "nil", "nil", 0)}

InitStatusPool ==
    {ContainerStatus(FALSE, "PodInitializing", "nil", 0),
     ContainerStatus(FALSE, "nil", "Error", 0), ContainerStatus(TRUE, "nil", "Completed", 0)}

ReasonPods ==
    {[Pod(Web1, phase, reason, statuses, <<>>) EXCEPT !.InitContainerStatuses = inits] :
        phase \in {"Pending", "Running"}, reason \in {"", "Evicted"},
        statuses \in SeqsUpTo(ReasonStatusPool, MaxContainers),
        inits \in SeqsUpTo(InitStatusPool, 1)}

\* The ingress lists of the namespaced and of the cluster-wide call, and the key
ResolverInputs ==
    {[first |-> first, second |-> second, namespace |-> ns, host |-> Host, path |-> path] :
        first \in IngressListings, second \in IngressListings,
        ns \in {"", "prod"}, path \in {PathV1, PathV1X}}

FnEngines ==
    {"isPodHealthy", "GetServiceEndpointHealth", "matchPath", "tsPathMatches", "podPhaseReason",
     "FindIngressForHostPath", "findIngressForHostPath"}

InitFn ==
    /\ engine \in FnEngines
    /\ input \in CASE engine = "isPodHealthy" -> HealthPods
                   [] engine = "podPhaseReason" -> ReasonPods
                   [] engine \in {"FindIngressForHostPath", "findIngressForHostPath"}
                        -> {in \in ResolverInputs : in.second = in.first \/ in.second.err}
                   [] engine = "GetServiceEndpointHealth" -> EndpointsResults
                   [] OTHER -> MatchInputs
    /\ pc = "call"
    /\ loc = [result |-> FALSE]
    /\ lines = <<>>
    /\ findings = 0
    /\ actions = <<>>
    /\ fc = NewFlowchart
    /\ calls = <<>>

CallIsPodHealthy ==
    /\ engine = "isPodHealthy" /\ pc = "call"
    /\ loc' = [result |-> isPodHealthy(input)]
    /\ pc' = "done"
    /\ UNCHANGED <<engine, input, lines, findings, actions, fc, calls>>

\* GetServiceEndpointHealth: (nil, err) when the Endpoints cannot be fetched
CallGetServiceEndpointHealth ==
    /\ engine = "GetServiceEndpointHealth" /\ pc = "call"
    /\ loc' = IF input.err THEN [err |-> TRUE, health |-> NilHealth]
              ELSE [err |-> FALSE, health |-> GetServiceEndpointHealth(input.obj)]
    /\ calls' = Append(calls, "GetEndpoints")
    /\ pc' = "done"
    /\ UNCHANGED <<engine, input, lines, findings, actions, fc>>

CallMatchPath ==
    /\ engine = "matchPath" /\ pc = "call"
    /\ loc' = [result |-> matchPath(input.pattern, input.path, input.pathType)]
    /\ pc' = "done"
    /\ UNCHANGED <<engine, input, lines, findings, actions, fc, calls>>

CallTsPathMatches ==
    /\ engine = "tsPathMatches" /\ pc = "call"
    /\ loc' = [result |-> tsPathMatches(HTTPPath(input.pattern, input.pathType, SvcApi),
                                        input.path)]
    /\ pc' = "done"
    /\ UNCHANGED <<engine, input, lines, findings, actions, fc, calls>>

CallPodPhaseReason ==
    /\ engine = "podPhaseReason" /\ pc = "call"
    /\ loc' = [result |-> podPhaseReason(input)]
    /\ pc' = "done"
    /\ UNCHANGED <<engine, input, lines, findings, actions, fc, calls>>

\* FindIngressForHostPath (Go) returns a non-nil error when a list call fails
\* and also, made with fmt.Errorf, when no rule matches
CallFindIngressForHostPath ==
    /\ engine = "FindIngressForHostPath" /\ pc = "call"
    /\ LET r == FindIngressForHostPath(input.first, input.second, input.namespace,
                                       input.host, input.path)
       IN  loc' = [result |-> [found |-> r.found, raised |-> r.err \in {"list", "nomatch"}]]
    /\ pc' = "done"
    /\ UNCHANGED <<engine, input, lines, findings, actions, fc, calls>>

\* findIngressForHostPath (TS) throws what listIngresses throws and returns
\* null when no rule matches
CallTsFindIngressForHostPath ==
    /\ engine = "findIngressForHostPath" /\ pc = "call"
    /\ LET r == findIngressForHostPath(input.first, input.host, input.path)
       IN  loc' = [result |-> [found |-> r.found, raised |-> r.err = "list"]]
    /\ pc' = "done"
    /\ UNCHANGED <<engine, input, lines, findings, actions, fc, calls>>

NextFn ==
    \/ CallIsPodHealthy \/ CallGetServiceEndpointHealth \/ CallMatchPath \/ CallTsPathMatches
    \/ CallPodPhaseReason \/ CallFindIngressForHostPath \/ CallTsFindIngressForHostPath

SpecFn == InitFn /\ [][NextFn]_vars

\* C4: isPodHealthy(pod) is true if and only if the phase is Succeeded, or the
\* phase is Running and every container status is Ready and none is Waiting.
C4_IsPodHealthyIff ==
    (engine = "isPodHealthy" /\ pc = "done") =>
        (loc.result <=>
            \/ input.Phase = "Succeeded"
            \/ /\ input.Phase = "Running"
               /\ \A i \in 1..Len(input.ContainerStatuses) : input.ContainerStatuses[i].Ready
               /\ \A i \in 1..Len(input.ContainerStatuses) :
                      input.ContainerStatuses[i].Waiting = "nil")

\* A Running pod whose containers are all Ready, one of them Waiting: unhealthy
C4_Witness ==
    /\ engine = "isPodHealthy" /\ pc = "done"
    /\ input.Phase = "Running" /\ Len(input.ContainerStatuses) = 2
    /\ \A i \in 1..2 : input.ContainerStatuses[i].Ready
    /\ input.ContainerStatuses[2].Waiting = "CrashLoopBackOff"
    /\ loc.result = FALSE

\* C5: in every EndpointHealth result totalEndpoints = readyCount +
\* notReadyCount, and both counts are non-negative.
C5_TotalIsReadyPlusNotReady ==
    (engine = "GetServiceEndpointHealth" /\ pc = "done" /\ ~loc.err) =>
        /\ loc.health.TotalEndpoints = loc.health.ReadyCount + loc.health.NotReadyCount
        /\ loc.health.ReadyCount >= 0
        /\ loc.health.NotReadyCount >= 0

\* An Endpoints object of two subsets with ready and not-ready addresses
C5_Witness ==
    /\ engine = "GetServiceEndpointHealth" /\ pc = "done" /\ ~loc.err
    /\ Len(input.obj.subsets) = 2
    /\ loc.health.ReadyCount = 1 /\ loc.health.NotReadyCount = 3
    /\ loc.health.TotalEndpoints = 4

\* C6: with pathType Exact a rule path matches iff it equals the query path;
\* with pathType Prefix it matches iff the query path starts with the rule
\* path (so "/" matches every path).
C6_ExactIsEqualityPrefixIsStartsWith ==
    (engine \in {"matchPath", "tsPathMatches"} /\ pc = "done") =>
        /\ input.pathType = "Exact" => (loc.result <=> input.path = input.pattern)
        /\ input.pathType = "Prefix" => (loc.result <=> HasPrefix(input.path, input.pattern))

-----------------------------------------------------------------------------
(* Resource-usage analysis: analyze_resource_usage (Go) and                  *)
(* AnalyzeResourceUsageTool (TS)                                             *)

\* insertionSortLessFunc step: x moves left past every element it is less than
InsertSorted(s, x, Less(_, _)) ==
    LET stop == {j \in 1..Len(s) : ~Less(x, s[j])}
        k    == IF stop = {} THEN 0 ELSE CHOOSE j \in stop : \A i \in stop : i <= j
    IN  SubSeq(s, 1, k) \o <<x>> \o SubSeq(s, k + 1, Len(s))

\* sort.Slice on a slice of at most 12 elements (insertion sort)
SortSlice(s, Less(_, _)) ==
    LET f[i \in 0..Len(s)] == IF i = 0 THEN <<>> ELSE InsertSorted(f[i - 1], s[i], Less)
    IN  f[Len(s)]

\* One container's resources; 0 is an absent request or limit
Resources(cpuReq, cpuLim, memReq, memLim) ==
    [cpuReq |-> cpuReq, cpuLim |-> cpuLim, memReq |-> memReq, memLim |-> memLim]

Usage(has, cpu, mem) == [has |-> has, cpu |-> cpu, mem |-> mem]

\* A pod of the namespace with what the metrics server reports for it
UsagePod(phase, containers, usage) ==
    [Phase |-> phase, Containers |-> containers, usage |-> usage]

ResourcePool ==
    {<<Resources(25, 50, 25, 50), Resources(25, 50, 25, 50)>>,
     <<Resources(0, 100, 0, 0)>>,
     <<Resources(100, 0, 100, 0)>>}

UsagePool ==
    {Usage(FALSE, 0, 0), Usage(TRUE, 95, 50), Usage(TRUE, 50, 95), Usage(TRUE, 96, 10),
     Usage(TRUE, 75, 10), Usage(TRUE, 85, 50), Usage(TRUE, 10, 10)}

UsagePods ==
    {UsagePod("Running", r, u) : r \in ResourcePool, u \in UsagePool}
        \cup {UsagePod("Succeeded", <<Resources(0, 100, 0, 100)>>, Usage(TRUE, 95, 95))}

PodNames == <<Web1, Web2, Web3>>

\* The pod list of the namespace: the i-th pod is named PodNames[i]
NamedPods(ps) == [i \in 1..Len(ps) |-> [Name |-> PodNames[i], Phase |-> ps[i].Phase,
                                        Containers |-> ps[i].Containers, usage |-> ps[i].usage]]

UsageInputs ==
    {[podsErr |-> FALSE, pods |-> NamedPods(ps), metricsErr |-> me] :
        ps \in SeqsUpTo(UsagePods, MaxUsagePods), me \in BOOLEAN}
        \cup {[podsErr |-> TRUE, pods |-> <<>>, metricsErr |-> FALSE]}

SumOver(cs, F(_)) == SumSeq([i \in 1..Len(cs) |-> F(cs[i])])

\* The podAnalysis of one active pod
goAnalyzePod(pod, metricsAvailable) ==
    LET cpuRequest == SumOver(pod.Containers, LAMBDA c : c.cpuReq)
        cpuLimit   == SumOver(pod.Containers, LAMBDA c : c.cpuLim)
        memRequest == SumOver(pod.Containers, LAMBDA c : c.memReq)
        memLimit   == SumOver(pod.Containers, LAMBDA c : c.memLim)
        missingLimits == cpuLimit = 0 \/ memLimit = 0
        missingReqs   == cpuRequest = 0 \/ memRequest = 0
        hasMetrics == metricsAvailable /\ pod.usage.has
        cpuUsage   == IF hasMetrics THEN pod.usage.cpu ELSE 0
        memUsage   == IF hasMetrics THEN pod.usage.mem ELSE 0
        cpuOver(t) == cpuLimit > 0 /\ hasMetrics /\ PctGT(cpuUsage, cpuLimit, t)
        memOver(t) == memLimit > 0 /\ hasMetrics /\ PctGT(memUsage, memLimit, t)
        category ==
            IF missingLimits /\ missingReqs THEN "MISSING LIMITS"
            ELSE IF hasMetrics /\ (cpuOver(90) \/ memOver(90)) THEN "CRITICAL"
            ELSE IF hasMetrics /\ (cpuOver(70) \/ memOver(70)) THEN "WARNING"
            ELSE IF /\ hasMetrics /\ cpuRequest > 0 /\ memRequest > 0
                    /\ cpuUsage * 100 < 30 * cpuRequest /\ memUsage * 100 < 30 * memRequest
                 THEN "OVERPROVISIONED"
            ELSE IF missingLimits THEN "MISSING LIMITS"
            ELSE "OK"
    IN  [name |-> pod.Name, cpuLimit |-> cpuLimit, memLimit |-> memLimit,
         cpuUsage |-> cpuUsage, memUsage |-> memUsage, hasMetrics |-> hasMetrics,
         cpuOver90 |-> cpuOver(90), memOver90 |-> memOver(90),
         cpuOver70 |-> cpuOver(70), memOver70 |-> memOver(70), category |-> category]

\* The findings of one podAnalysis (the switch on pa.category)
goUsageFindings(pa) ==
    CASE pa.category = "CRITICAL" ->
            (IF pa.cpuOver90 THEN <<FormatFinding("CRITICAL", "cpu_of_limit", Named(pa.name))>>
             ELSE <<>>) \o
            (IF pa.memOver90 THEN <<FormatFinding("CRITICAL", "memory_of_limit", Named(pa.name))>>
             ELSE <<>>)
      [] pa.category = "WARNING" ->
            (IF pa.cpuOver70 THEN <<FormatFinding("WARNING", "cpu_of_limit", Named(pa.name))>>
             ELSE <<>>) \o
            (IF pa.memOver70 THEN <<FormatFinding("WARNING", "memory_of_limit", Named(pa.name))>>
             ELSE <<>>)
      [] pa.category = "OVERPROVISIONED" ->
            <<FormatFinding("INFO", "overprovisioned", Named(pa.name))>>
      [] pa.category = "MISSING LIMITS" ->
            <<FormatFinding("WARNING", "missing_limits", Named(pa.name))>>
      [] OTHER -> <<>>

\* chartData[i].cpuPctLim > chartData[j].cpuPctLim
ChartLess(a, b) == a.cpuUsage * b.cpuLimit > b.cpuUsage * a.cpuLimit

IsActive(pod) == pod.Phase # "Succeeded" /\ pod.Phase # "Failed"
InChart(pa) == pa.cpuLimit > 0 /\ pa.hasMetrics

\* analyze_resource_usage (Go)
GoAnalyzeResourceUsage ==
    /\ engine = "go_usage" /\ pc = "call"
    /\ IF input.podsErr
       THEN /\ calls' = Append(calls, "ListPods")
            /\ lines' = <<Text("error", N(0))>>
            /\ UNCHANGED <<loc, findings>>
       ELSE LET podMetrics == SelectSeq(input.pods, LAMBDA q : q.usage.has)
                metricsAvailable == ~input.metricsErr /\ Len(podMetrics) > 0
                active    == SelectSeq(input.pods, IsActive)
                analyses  == [i \in 1..Len(active) |-> goAnalyzePod(active[i], metricsAvailable)]
                found     == FlatSeq([i \in 1..Len(analyses) |-> goUsageFindings(analyses[i])])
                chartData == IF metricsAvailable
                             THEN SortSlice(SelectSeq(analyses, InChart), ChartLess)
                             ELSE <<>>
            IN  /\ calls' = calls \o <<"ListPods", "GetPodMetrics">>
                /\ loc' = [analyses |-> analyses,
                           chart |-> SubSeq(chartData, 1, Min(10, Len(chartData)))]
                /\ lines' = (IF metricsAvailable THEN <<>>
                             ELSE <<FormatFinding("WARNING", "metrics_unavailable", N(0))>>)
                            \o <<Section("FINDINGS")>> \o found
                /\ findings' = Len(found)
    /\ pc' = "done"
    /\ UNCHANGED <<engine, input, actions, fc>>

\* The flags of one pod in AnalyzeResourceUsageTool: the reference is the limit,
\* or the request when there is no limit
tsAnalyzePod(pod) ==
    LET totalCPUReq == SumOver(pod.Containers, LAMBDA c : c.cpuReq)
        totalCPULim == SumOver(pod.Containers, LAMBDA c : c.cpuLim)
        totalMemReq == SumOver(pod.Containers, LAMBDA c : c.memReq)
        totalMemLim == SumOver(pod.Containers, LAMBDA c : c.memLim)
        cpuRef == IF totalCPULim > 0 THEN totalCPULim ELSE totalCPUReq
        memRef == IF totalMemLim > 0 THEN totalMemLim ELSE totalMemReq
        cpuOver(t) == cpuRef > 0 /\ pod.usage.has /\ PctGT(pod.usage.cpu, cpuRef, t)
        memOver(t) == memRef > 0 /\ pod.usage.has /\ PctGT(pod.usage.mem, memRef, t)
    IN  [name |-> pod.Name, cpuLimit |-> totalCPULim, memLimit |-> totalMemLim,
         cpuUsage |-> IF pod.usage.has THEN pod.usage.cpu ELSE 0,
         memUsage |-> IF pod.usage.has THEN pod.usage.mem ELSE 0,
         hasMetrics |-> pod.usage.has,
         category |-> IF cpuOver(95) \/ memOver(95) THEN "CRITICAL"
                      ELSE IF cpuOver(80) \/ memOver(80) THEN "WARNING"
                      ELSE "OK"]

\* AnalyzeResourceUsageTool.invoke (TS): a failed list of pods or of metrics fails the tool
TsAnalyzeResourceUsage ==
    /\ engine = "ts_usage" /\ pc = "call"
    /\ IF input.podsErr \/ input.metricsErr
       THEN /\ calls' = IF input.podsErr THEN Append(calls, "ListPods")
                        ELSE calls \o <<"ListPods", "GetPodMetrics">>
            /\ lines' = <<Text("error", N(0))>>
            /\ UNCHANGED <<loc, findings>>
       ELSE LET analyses  == [i \in 1..Len(input.pods) |-> tsAnalyzePod(input.pods[i])]
                criticals == SelectSeq(analyses, LAMBDA a : a.category = "CRITICAL")
                warnings  == SelectSeq(analyses, LAMBDA a : a.category = "WARNING")
                flagged   == [i \in 1..Len(criticals) |->
                                 FormatFinding("CRITICAL", "utilization", Named(criticals[i].name))]
                             \o [i \in 1..Len(warnings) |->
                                 FormatFinding("WARNING", "utilization", Named(warnings[i].name))]
            IN  /\ calls' = calls \o <<"ListPods", "GetPodMetrics">>
                /\ loc' = [analyses |-> analyses, chart |-> <<>>]
                /\ lines' = flagged
                /\ findings' = flagged
    /\ pc' = "done"
    /\ UNCHANGED <<engine, input, actions, fc>>

InitUsage ==
    /\ engine \in {"go_usage", "ts_usage"}
    /\ input \in UsageInputs
    /\ pc = "call"
    /\ loc = [analyses |-> <<>>, chart |-> <<>>]
    /\ lines = <<>>
    /\ findings = IF engine = "ts_usage" THEN <<>> ELSE 0
    /\ actions = <<>>
    /\ fc = NewFlowchart
    /\ calls = <<>>

NextUsage == GoAnalyzeResourceUsage \/ TsAnalyzeResourceUsage

SpecUsage == InitUsage /\ [][NextUsage]_vars

\* C9: resource-usage analysis puts a pod in the CRITICAL category whenever
\* its CPU usage or its memory usage is above 90% of the corresponding limit
\* (either metric alone is enough), so a pod at 95% of its CPU limit and 50%
\* of its memory limit is CRITICAL.
C9_CriticalWhenEitherAbove90 ==
    (engine \in {"go_usage", "ts_usage"} /\ pc = "done") =>
        \A i \in 1..Len(loc.analyses) :
            LET a == loc.analyses[i]
            IN  (a.hasMetrics /\ (\/ a.cpuLimit > 0 /\ PctGT(a.cpuUsage, a.cpuLimit, 90)
                                  \/ a.memLimit > 0 /\ PctGT(a.memUsage, a.memLimit, 90)))
                    => a.category = "CRITICAL"

-----------------------------------------------------------------------------
(* Network-policy audit: analyze_network_policies (Go),                      *)
(* AnalyzeNetworkPoliciesTool (TS) and Check 5 of analyze_service_connectivity *)

StrPolicy == <<"p", "o", "l", "i", "c", "y", "_">>
StrTarget == <<"t", "a", "r", "g", "e", "t", "_">>
StrSrc == <<"s", "r", "c", "_">>
StrDst == <<"d", "s", "t", "_">>
StrDenyTarget == <<"d", "e", "n", "y", "_", "t", "a", "r", "g", "e", "t", "_">>
StrDenySrc == <<"d", "e", "n", "y", "_", "s", "r", "c", "_">>
StrDenyDst == <<"d", "e", "n", "y", "_", "d", "s", "t", "_">>
IdAnySrc == <<"A", "N", "Y", "_", "S", "R", "C">>
IdNS == <<"N", "S">>
IdAnyDst == <<"A", "N", "Y", "_", "D", "S", "T">>
StrNs == <<"n", "s", "_">>
StrCidr == <<"c", "i", "d", "r", "_">>
StrAllPods == <<"a", "l", "l", "-", "p", "o", "d", "s">>
StrAllPodsLabel == <<"a", "l", "l", " ", "p", "o", "d", "s">>
LabelApi == <<"a", "p", "p", "=", "a", "p", "i">>
LabelWeb == <<"a", "p", "p", "=", "w", "e", "b">>
Cidr10 == <<"1", "0", ".", "0", ".", "0", ".", "0", "/", "8">>
NpDenyIn == <<"d", "e", "n", "y", "-", "i", "n">>
NpDenyNil == <<"d", "e", "n", "y", "-", "n", "i", "l">>
NpAllowWeb == <<"a", "l", "l", "o", "w", "-", "w", "e", "b">>
NpEgressOnly == <<"e", "g", "r", "e", "s", "s", "-", "o", "n", "l", "y">>
NpUntyped == <<"u", "n", "t", "y", "p", "e", "d">>

\* fmt.Sprintf("%d", n) for 0 <= n < 100
DigitOf(n) == CASE n = 0 -> "0" [] n = 1 -> "1" [] n = 2 -> "2" [] n = 3 -> "3" [] n = 4 -> "4"
                [] n = 5 -> "5" [] n = 6 -> "6" [] n = 7 -> "7" [] n = 8 -> "8" [] OTHER -> "9"
Itoa(n) == IF n < 10 THEN <<DigitOf(n)>> ELSE <<DigitOf(n \div 10), DigitOf(n % 10)>>

\* A peer of a rule: a pod selector, a namespace selector or an IP block
Peer(kind, label) == [kind |-> kind, label |-> label]
Rule(peers) == [peers |-> peers]
\* spec.ingress / spec.egress: absent, or a (possibly empty) list of rules
Rules(present, rules) == [present |-> present, rules |-> rules]

\* selector: the matchLabels as a list of "k=v" labels; <<>> selects every pod
NetPol(name, selector, policyTypes, ingress, egress) ==
    [name |-> name, selector |-> selector, policyTypes |-> policyTypes,
     ingress |-> ingress, egress |-> egress]

PolicyPool ==
    {NetPol(NpDenyIn, <<LabelApi>>, <<"Ingress">>, Rules(TRUE, <<>>), Rules(FALSE, <<>>)),
     NetPol(NpDenyNil, <<>>, <<"Ingress", "Egress">>, Rules(FALSE, <<>>),
            Rules(TRUE, <<Rule(<<Peer("pod", LabelWeb)>>)>>)),
     NetPol(NpAllowWeb, <<LabelApi>>, <<"Ingress">>,
            Rules(TRUE, <<Rule(<<Peer("pod", LabelWeb), Peer("cidr", Cidr10)>>)>>),
            Rules(FALSE, <<>>)),
     NetPol(NpEgressOnly, <<LabelWeb>>, <<"Egress">>, Rules(FALSE, <<>>), Rules(TRUE, <<>>)),
     NetPol(NpUntyped, <<LabelWeb>>, <<>>, Rules(TRUE, <<Rule(<<>>)>>), Rules(FALSE, <<>>))}

NpPod(name, phase, labels) == [Name |-> name, Phase |-> phase, Labels |-> labels]

NpPodPool ==
    <<NpPod(Web1, "Running", {LabelApi}), NpPod(Web2, "Running", {LabelWeb}),
      NpPod(Web3, "Succeeded", {LabelApi})>>

NetpolInputs ==
    {[policiesErr |-> FALSE, policies |-> ps, podsErr |-> FALSE, pods |-> pods] :
        ps \in Arrangements(PolicyPool, MaxPolicies), pods \in SubLists(NpPodPool, MaxPods)}
    \cup {[policiesErr |-> e, policies |-> <<>>, podsErr |-> ~e, pods |-> <<>>] :
           e \in BOOLEAN}

\* selector.Matches(labels.Set(pod.Labels)) for a matchLabels selector
SelectorMatches(selector, podLabels) == Range(selector) \subseteq podLabels

hasIngressDefaultOnly(np) == Len(np.policyTypes) = 0

\* hasIngress (Go): the policy types name Ingress, or there are no policy types
hasIngress(np) ==
    (\E i \in 1..Len(np.policyTypes) : np.policyTypes[i] = "Ingress") \/ Len(np.policyTypes) = 0

hasEgress(np) == \E i \in 1..Len(np.policyTypes) : np.policyTypes[i] = "Egress"

\* describeIngressSources / describeEgressDests: one entry per peer, one entry
\* ("all") for a rule without peers
describePeers(rule) ==
    IF rule.peers = <<>> THEN <<Peer("all", <<>>)>> ELSE rule.peers

\* formatLabelSelector (Go); Object.entries(matchLabels).map(([k, v]) => `${k}=${v}`).join(', ') (TS)
JoinComma(labels) ==
    FlatSeq([i \in 1..Len(labels) |->
                IF i = 1 THEN labels[i] ELSE <<",", " ">> \o labels[i]])

\* The Allow/Deny Matrix lines of one policy
goMatrixLines(np) ==
    <<Text("policy", Named(np.name))>>
    \o (IF ~hasIngress(np) THEN <<>>
        ELSE IF Len(np.ingress.rules) = 0 THEN <<Text("Ingress: DENY ALL", Named(np.name))>>
        ELSE [i \in 1..Len(np.ingress.rules) |-> Text("Ingress Rule: ALLOW", NamedN(np.name, i))])
    \o (IF ~hasEgress(np) THEN <<>>
        ELSE IF Len(np.egress.rules) = 0 THEN <<Text("Egress: DENY ALL", Named(np.name))>>
        ELSE [i \in 1..Len(np.egress.rules) |-> Text("Egress Rule: ALLOW", NamedN(np.name, i))])

\* The findings of one policy
goPolicyFindings(np) ==
    (IF hasIngress(np) /\ Len(np.ingress.rules) = 0
     THEN <<FormatFinding("CRITICAL", "ingress_denied", Named(np.name))>> ELSE <<>>)
    \o (IF hasEgress(np) /\ Len(np.egress.rules) = 0
        THEN <<FormatFinding("CRITICAL", "egress_denied", Named(np.name))>> ELSE <<>>)
    \o (IF Len(np.selector) = 0
        THEN <<FormatFinding("INFO", "selects_all_pods", Named(np.name))>> ELSE <<>>)

\* The source (or destination) nodes of one policy and their solid edges
goAddPeers(f, np, peers, base, inbound) ==
    LET policyID == SafeID(StrPolicy \o np.name)
        targetID == SafeID(StrTarget \o np.name)
        g[k \in 0..Len(peers)] ==
            IF k = 0 THEN f
            ELSE LET id == SafeID((IF inbound THEN StrSrc ELSE StrDst) \o policyID
                                  \o <<"_">> \o Itoa(base + k - 1))
                 IN  IF inbound
                     THEN AddEdge(AddNode(g[k - 1], id, peers[k].label), id, targetID, <<>>)
                     ELSE AddEdge(AddNode(g[k - 1], id, peers[k].label), targetID, id, <<>>)
    IN  g[Len(peers)]

AllPeers(rules) == FlatSeq([i \in 1..Len(rules) |-> describePeers(rules[i])])

\* The "Allowed Traffic" subgraph: edgeIdx runs over all the policies
goAllowedTraffic(f, policies) ==
    LET st[i \in 0..Len(policies)] ==
            IF i = 0 THEN [f |-> f, edgeIdx |-> 0]
            ELSE LET np   == policies[i]
                     prev == st[i - 1]
                     ins  == AllPeers(np.ingress.rules)
                     outs == AllPeers(np.egress.rules)
                     f1   == AddNode(prev.f, SafeID(StrTarget \o np.name), JoinComma(np.selector))
                     f2   == goAddPeers(f1, np, ins, prev.edgeIdx, TRUE)
                     f3   == goAddPeers(f2, np, outs, prev.edgeIdx + Len(ins), FALSE)
                 IN  [f |-> f3, edgeIdx |-> prev.edgeIdx + Len(ins) + Len(outs)]
    IN  st[Len(policies)].f

\* The "Denied by Policy" subgraph: dotted "denied" edges
goDeniedTraffic(f, policies) ==
    LET st[i \in 0..Len(policies)] ==
            IF i = 0 THEN [f |-> f, denyIdx |-> 0]
            ELSE LET np   == policies[i]
                     prev == st[i - 1]
                     denyTargetID == SafeID(StrDenyTarget \o np.name)
                     denyIn  == hasIngress(np) /\ Len(np.ingress.rules) = 0
                     denyOut == hasEgress(np) /\ Len(np.egress.rules) = 0
                     f1 == AddNode(prev.f, denyTargetID, JoinComma(np.selector))
                     blockSrcID == SafeID(StrDenySrc \o Itoa(prev.denyIdx))
                     f2 == IF denyIn
                           THEN AddEdge(AddNode(f1, blockSrcID, <<"All Inbound">>),
                                        blockSrcID, denyTargetID, <<"denied">>)
                           ELSE f1
                     i2 == IF denyIn THEN prev.denyIdx + 1 ELSE prev.denyIdx
                     blockDstID == SafeID(StrDenyDst \o Itoa(i2))
                     f3 == IF denyOut
                           THEN AddEdge(AddNode(f2, blockDstID, <<"All Outbound">>),
                                        denyTargetID, blockDstID, <<"denied">>)
                           ELSE f2
                 IN  [f |-> f3, denyIdx |-> IF denyOut THEN i2 + 1 ELSE i2]
    IN  st[Len(policies)].f

\* analyze_network_policies (Go)
GoAnalyzeNetworkPolicies ==
    /\ engine = "go_netpol" /\ pc = "call"
    /\ IF input.policiesErr \/ input.podsErr
       THEN /\ calls' = IF input.policiesErr THEN Append(calls, "ListNetworkPolicies")
                        ELSE calls \o <<"ListNetworkPolicies", "ListPods">>
            /\ lines' = <<Text("error", N(0))>>
            /\ UNCHANGED <<findings, fc>>
       ELSE IF Len(input.policies) = 0
       THEN /\ calls' = calls \o <<"ListNetworkPolicies", "ListPods">>
            /\ lines' = <<FormatFinding("WARNING", "no_policies_all_traffic_allowed", N(0)),
                          Text("pods_without_protection", N(Len(input.pods))),
                          Section("NETWORK FLOW DIAGRAM")>>
            /\ findings' = 1
            /\ fc' = AddEdge(AddEdge(
                         AddNode(AddNode(AddNode(NewFlowchart, IdAnySrc, <<"Any Source">>),
                                         IdNS, <<"All Pods">>), IdAnyDst, <<"Any Destination">>),
                         IdAnySrc, IdNS, <<"allowed">>), IdNS, IdAnyDst, <<"allowed">>)
       ELSE LET policies  == input.policies
                active    == SelectSeq(input.pods, IsActive)
                uncoveredPods == SelectSeq(active, LAMBDA pod :
                                    \A i \in 1..Len(policies) :
                                        ~SelectorMatches(policies[i].selector, pod.Labels))
                found == (IF Len(uncoveredPods) > 0
                          THEN <<FormatFinding("WARNING", "pods_without_policy",
                                               N(Len(uncoveredPods)))>>
                          ELSE <<>>)
                         \o FlatSeq([i \in 1..Len(policies) |-> goPolicyFindings(policies[i])])
                hasDeniedFlows == \E i \in 1..Len(policies) :
                                     \/ hasIngress(policies[i]) /\ Len(policies[i].ingress.rules) = 0
                                     \/ hasEgress(policies[i]) /\ Len(policies[i].egress.rules) = 0
                allowed == goAllowedTraffic(NewFlowchart, policies)
            IN  /\ calls' = calls \o <<"ListNetworkPolicies", "ListPods">>
                /\ lines' = <<Section("Policy Summary"), Section("Pod Coverage"),
                              Text("covered", NM(Len(active) - Len(uncoveredPods),
                                                 Len(uncoveredPods))),
                              Section("Allow/Deny Matrix")>>
                            \o FlatSeq([i \in 1..Len(policies) |-> goMatrixLines(policies[i])])
                            \o <<Section("FINDINGS")>> \o found
                            \o <<Section("NETWORK FLOW DIAGRAM")>>
                /\ findings' = Len(found)
                /\ fc' = IF hasDeniedFlows \/ Len(uncoveredPods) > 0
                         THEN goDeniedTraffic(allowed, policies)
                         ELSE allowed
    /\ pc' = "done"
    /\ UNCHANGED <<engine, input, loc, actions>>

\* A left fold over a sequence
RECURSIVE FoldSeq(_, _, _)
FoldSeq(Op(_, _), acc, s) ==
    IF s = <<>> THEN acc ELSE FoldSeq(Op, Op(acc, Head(s)), Tail(s))

\* [...new Set(xs)]: the first occurrence of every element, in order
Dedup(xs) ==
    FoldSeq(LAMBDA acc, x : IF x \in Range(acc) THEN acc ELSE Append(acc, x), <<>>, xs)

TsAcc(ls, covered, sg, edges) == [lines |-> ls, covered |-> covered, sg |-> sg, edges |-> edges]

\* The text of one edge line: `${from}[${fromStr}] -->|all| ${to}[${toStr}]`
tsEdge(from, fromStr, to, toStr) ==
    [k |-> "edge", id |-> from, to |-> to,
     label |-> fromStr \o <<"|", "a", "l", "l", "|">> \o toStr]

\* One `from` peer of an ingress rule
tsIngressPeer(acc, peer, name, safeSelId, selectorId) ==
    IF peer.kind = "pod"
    THEN LET fromStr    == IF peer.label = <<>> THEN StrAllPodsLabel ELSE peer.label
             safeFromId == mermaidSafeId(fromStr)
         IN  TsAcc(Append(acc.lines, Text("Allow from pods", Named(name))), acc.covered,
                   Append(acc.sg, safeFromId),
                   Append(acc.edges, tsEdge(safeFromId, fromStr, safeSelId, selectorId)))
    ELSE IF peer.kind = "ns"
    THEN LET nsStr == IF peer.label = <<>> THEN <<"a", "l", "l">> ELSE peer.label
         IN  TsAcc(Append(acc.lines, Text("Allow from namespaces", Named(name))), acc.covered,
                   acc.sg,
                   Append(acc.edges, tsEdge(mermaidSafeId(StrNs \o nsStr), nsStr,
                                            safeSelId, selectorId)))
    ELSE TsAcc(Append(acc.lines, Text("Allow from CIDR", Named(name))), acc.covered, acc.sg,
               Append(acc.edges, tsEdge(mermaidSafeId(StrCidr \o peer.label), peer.label,
                                        safeSelId, selectorId)))

\* One `to` peer of an egress rule: only a pod peer adds an edge
tsEgressPeer(acc, peer, name, safeSelId, selectorId) ==
    IF peer.kind = "pod"
    THEN LET toStr    == IF peer.label = <<>> THEN StrAllPodsLabel ELSE peer.label
             safeToId == mermaidSafeId(toStr)
         IN  TsAcc(Append(acc.lines, Text("Allow to pods", Named(name))), acc.covered,
                   Append(acc.sg, safeToId),
                   Append(acc.edges, tsEdge(safeSelId, selectorId, safeToId, toStr)))
    ELSE IF peer.kind = "ns"
    THEN [acc EXCEPT !.lines = Append(@, Text("Allow to namespaces", Named(name)))]
    ELSE [acc EXCEPT !.lines = Append(@, Text("Allow to CIDR", Named(name)))]

tsIngressRule(acc, rule, name, safeSelId, selectorId) ==
    IF rule.peers = <<>>
    THEN [acc EXCEPT !.lines = Append(@, Text("Allow all sources", Named(name)))]
    ELSE FoldSeq(LAMBDA a, peer : tsIngressPeer(a, peer, name, safeSelId, selectorId),
                 acc, rule.peers)

tsEgressRule(acc, rule, name, safeSelId, selectorId) ==
    IF rule.peers = <<>>
    THEN [acc EXCEPT !.lines = Append(@, Text("Allow to all destinations", Named(name)))]
    ELSE FoldSeq(LAMBDA a, peer : tsEgressPeer(a, peer, name, safeSelId, selectorId),
                 acc, rule.peers)

\* The body of the loop over the policies
tsPolicy(acc, policy, pods) ==
    LET name        == policy.name
        selectorStr == JoinComma(policy.selector)
        selectorId  == IF selectorStr = <<>> THEN StrAllPods ELSE selectorStr
        safeSelId   == mermaidSafeId(selectorId)
        matched     == {pods[i].Name : i \in {j \in 1..Len(pods) :
                            SelectorMatches(policy.selector, pods[j].Labels)}}
        a1 == TsAcc(acc.lines \o <<Text("policy", Named(name)),
                                   Text("Pod Selector", Named(selectorStr)),
                                   Text("Policy Types", NamedN(name, Len(policy.policyTypes)))>>,
                    acc.covered \cup matched, Append(acc.sg, safeSelId), acc.edges)
        a2 == IF policy.ingress.present
              THEN LET h == [a1 EXCEPT !.lines =
                               @ \o <<Text("Ingress Rules:", Named(name))>>
                                 \o (IF Len(policy.ingress.rules) = 0
                                     THEN <<Text("Deny all ingress", Named(name))>>
                                     ELSE <<>>)]
                   IN  FoldSeq(LAMBDA a, rule : tsIngressRule(a, rule, name, safeSelId, selectorId),
                               h, policy.ingress.rules)
              ELSE IF \E i \in 1..Len(policy.policyTypes) : policy.policyTypes[i] = "Ingress"
              THEN [a1 EXCEPT !.lines =
                       Append(@, Text("Deny all ingress (no ingress rules defined)", Named(name)))]
              ELSE a1
        a3 == IF policy.egress.present
              THEN LET h == [a2 EXCEPT !.lines =
                               @ \o <<Text("Egress Rules:", Named(name))>>
                                 \o (IF Len(policy.egress.rules) = 0
                                     THEN <<Text("Deny all egress", Named(name))>>
                                     ELSE <<>>)]
                   IN  FoldSeq(LAMBDA a, rule : tsEgressRule(a, rule, name, safeSelId, selectorId),
                               h, policy.egress.rules)
              ELSE IF \E i \in 1..Len(policy.policyTypes) : policy.policyTypes[i] = "Egress"
              THEN [a2 EXCEPT !.lines =
                       Append(@, Text("Deny all egress (no egress rules defined)", Named(name)))]
              ELSE a2
    IN  a3

\* AnalyzeNetworkPoliciesTool.invoke (TS)
TsAnalyzeNetworkPolicies ==
    /\ engine = "ts_netpol" /\ pc = "call"
    /\ IF input.policiesErr \/ input.podsErr
       THEN /\ calls' = IF input.policiesErr THEN Append(calls, "listNetworkPolicies")
                        ELSE calls \o <<"listNetworkPolicies", "listPods">>
            /\ lines' = <<Text("error", N(0))>>
            /\ UNCHANGED fc
       ELSE LET pods == input.pods
                acc  == FoldSeq(LAMBDA a, policy : tsPolicy(a, policy, pods),
                                TsAcc(<<Text("found", NM(Len(input.policies), Len(pods)))>>,
                                      {}, <<>>, <<>>),
                                input.policies)
                uncoveredPods == SelectSeq(pods, LAMBDA pod : pod.Name \notin acc.covered)
                tail == IF Len(uncoveredPods) > 0
                        THEN <<Section("Pods NOT Covered by Any Network Policy"),
                               FormatFinding("WARNING", "pods_without_policy",
                                             N(Len(uncoveredPods)))>>
                        ELSE IF Len(pods) > 0 /\ Len(input.policies) > 0
                        THEN <<Text("All pods are covered", N(0))>>
                        ELSE <<>>
                sgNodes == Dedup(acc.sg)
            IN  /\ calls' = calls \o <<"listNetworkPolicies", "listPods">>
                /\ lines' = acc.lines \o tail
                            \o (IF Len(acc.edges) > 0 THEN <<Section("mermaid")>> ELSE <<>>)
                /\ fc' = IF Len(acc.edges) > 0
                         THEN [lines |-> [i \in 1..Len(sgNodes) |->
                                            [k |-> "node", id |-> sgNodes[i], to |-> <<>>,
                                             label |-> <<>>]]
                                         \o Dedup(acc.edges),
                               styles |-> <<>>]
                         ELSE NewFlowchart
    /\ pc' = "done"
    /\ UNCHANGED <<engine, input, loc, findings, actions>>

-----------------------------------------------------------------------------
(* analyze_service_connectivity (Go) *)

StrIng == <<"i", "n", "g", "_">>
StrSvc == <<"s", "v", "c", "_">>
StrNp  == <<"n", "p", "_">>

\* A pod that GetPodsForService returns, with its labels and the container
\* ports its containers declare
ConnPod(p, labels, ports) ==
    [Name |-> p.Name, Phase |-> p.Phase, Reason |-> p.Reason,
     ContainerStatuses |-> p.ContainerStatuses,
     InitContainerStatuses |-> p.InitContainerStatuses, Containers |-> p.Containers,
     Labels |-> labels, ContainerPorts |-> ports]

ConnPodPool ==
    <<ConnPod(PodPool[1], {LabelApi}, {80}), ConnPod(PodPool[2], {LabelApi, LabelWeb}, {}),
      ConnPod(PodPool[3], {LabelApi}, {80})>>

ConnInputs ==
    [svc       : ServiceResults(SvcApi),
     pods      : {Listing(TRUE, <<>>)}
                 \cup {Listing(FALSE, l) : l \in SubLists(ConnPodPool, MaxPods)},
     endpoints : EndpointsResults,
     policies  : {Listing(TRUE, <<>>)}
                 \cup {Listing(FALSE, l) : l \in Arrangements(PolicyPool, MaxPolicies)},
     ingresses : {Listing(TRUE, <<>>)}
                 \cup {Listing(FALSE, l) : l \in SubLists(IngressPool, 1)}]

\* The elements of a set of numbers as a list, ascending
RECURSIVE Ascending(_)
Ascending(S) ==
    IF S = {} THEN <<>>
    ELSE LET x == CHOOSE y \in S : \A z \in S : y <= z
         IN  <<x>> \o Ascending(S \ {x})

Chk(ls, n) == [lines |-> ls, n |-> n]

\* Check 2: Selector Matches Pods
connCheckPods(c, svc, pods) ==
    IF svc.Selector = {}
    THEN Chk(Append(c.lines, FormatFinding("INFO", "no_selector", N(0))), c.n)
    ELSE IF pods.err
    THEN Chk(Append(c.lines, FormatFinding("WARNING", "could_not_list_pods", N(0))), c.n + 1)
    ELSE IF Len(pods.items) = 0
    THEN Chk(Append(c.lines, FormatFinding("CRITICAL", "no_pods_match_selector", N(0))), c.n + 1)
    ELSE LET healthyCount == Len(SelectSeq(pods.items, isPodHealthy))
             total        == Len(pods.items)
             counts       == Text("pods_match_selector", NM(healthyCount, total - healthyCount))
         IN  IF healthyCount = 0
             THEN Chk(c.lines \o <<counts, FormatFinding("CRITICAL", "all_pods_unhealthy", N(0))>>,
                      c.n + 1)
             ELSE IF healthyCount < total
             THEN Chk(c.lines \o <<counts, FormatFinding("WARNING", "pods_unhealthy",
                                                         NM(total - healthyCount, total))>>,
                      c.n + 1)
             ELSE Chk(c.lines \o <<counts, FormatFinding("INFO", "all_pods_healthy", N(0))>>, c.n)

\* Check 3: Endpoints Ready
connCheckEndpoints(c, svc, endpoints) ==
    IF endpoints.err
    THEN Chk(Append(c.lines, FormatFinding("WARNING", "could_not_check_endpoints", N(0))),
             c.n + 1)
    ELSE LET health == GetServiceEndpointHealth(endpoints.obj)
             kv     == <<Text("Total Endpoints", N(health.TotalEndpoints)),
                         Text("Ready", N(health.ReadyCount)),
                         Text("Not Ready", N(health.NotReadyCount))>>
         IN  IF health.TotalEndpoints = 0 /\ svc.Selector # {}
             THEN Chk(c.lines \o kv \o <<FormatFinding("CRITICAL", "no_endpoints", N(0))>>,
                      c.n + 1)
             ELSE IF health.ReadyCount = 0 /\ health.TotalEndpoints > 0
             THEN Chk(c.lines \o kv
                      \o <<FormatFinding("CRITICAL", "all_endpoints_not_ready", N(0))>>, c.n + 1)
             ELSE IF health.NotReadyCount > 0
             THEN Chk(c.lines \o kv
                      \o <<FormatFinding("WARNING", "endpoints_not_ready",
                                         NM(health.NotReadyCount, health.TotalEndpoints))>>,
                      c.n + 1)
             ELSE IF health.ReadyCount > 0
             THEN Chk(c.lines \o kv
                      \o <<FormatFinding("INFO", "all_endpoints_ready", N(health.ReadyCount))>>,
                      c.n)
             ELSE Chk(c.lines \o kv, c.n)

\* Check 4: Port Mapping Validation
connCheckPorts(c, svc, matchedPods) ==
    IF Len(matchedPods) > 0
    THEN LET containerPorts == UNION {matchedPods[i].ContainerPorts : i \in 1..Len(matchedPods)}
         IN  FoldSeq(LAMBDA a, targetPort :
                        IF containerPorts # {} /\ targetPort \notin containerPorts
                        THEN Chk(Append(a.lines, FormatFinding("WARNING", "port_not_declared",
                                                               N(targetPort))), a.n + 1)
                        ELSE Chk(Append(a.lines, Text("port_ok", N(targetPort))), a.n),
                     c, Ascending(svc.Ports))
    ELSE Chk(Append(c.lines, Text("port_check_skipped", N(0))), c.n)

\* np.Spec.PolicyTypes names Ingress and np.Spec.Ingress is empty, once per
\* occurrence of Ingress in the policy types
connDenyAll(np) ==
    IF Len(np.ingress.rules) = 0
    THEN SelectSeq(np.policyTypes, LAMBDA pt : pt = "Ingress")
    ELSE <<>>

\* Check 5: Network Policies
connCheckPolicies(c, policies, matchedPods) ==
    IF policies.err
    THEN Chk(Append(c.lines, Text("could_not_check_network_policies", N(0))), c.n)
    ELSE IF Len(policies.items) = 0
    THEN Chk(Append(c.lines, FormatFinding("INFO", "no_network_policies", N(0))), c.n)
    ELSE LET affects(np) == \E i \in 1..Len(matchedPods) :
                               SelectorMatches(np.selector, matchedPods[i].Labels)
             a == FoldSeq(LAMBDA acc, np :
                             IF ~affects(np) THEN acc
                             ELSE Chk(acc.lines
                                      \o <<Text("policy_affects_service_pods", Named(np.name))>>
                                      \o [i \in 1..Len(connDenyAll(np)) |->
                                            FormatFinding("WARNING", "denies_all_ingress",
                                                          Named(np.name))],
                                      acc.n + Len(connDenyAll(np))),
                          c, policies.items)
         IN  IF \A i \in 1..Len(policies.items) : ~affects(policies.items[i])
             THEN Chk(Append(a.lines, FormatFinding("INFO", "no_policies_target_pods", N(0))), a.n)
             ELSE a

\* The (ingress, rule, path) triples whose backend is the service
connExposing(ingresses, svcName) ==
    FlatSeq([i \in 1..Len(ingresses) |->
        FlatSeq([r \in 1..Len(ingresses[i].rules) |->
            IF ~ingresses[i].rules[r].http THEN <<>>
            ELSE LET paths == ingresses[i].rules[r].paths
                     hits  == SelectSeq(paths, LAMBDA p : p.svc # <<>> /\ p.svc = svcName)
                 IN  [k \in 1..Len(hits) |-> [ing |-> ingresses[i].name, path |-> hits[k].path]]])])

\* Check 6: Ingress Exposure
connCheckIngresses(c, ingresses, svcName) ==
    IF ingresses.err
    THEN Chk(Append(c.lines, Text("could_not_check_ingresses", N(0))), c.n)
    ELSE LET ex == connExposing(ingresses.items, svcName)
         IN  Chk(c.lines \o [k \in 1..Len(ex) |-> Text("ingress_exposes", Named(ex[k].ing))]
                 \o (IF Len(ex) = 0
                     THEN <<FormatFinding("INFO", "not_exposed_via_ingress", N(0))>>
                     ELSE <<>>),
                 c.n)

\* CONNECTIVITY DIAGRAM
connDiagram(svc, svcName, matchedPods, endpoints, policies, ingresses) ==
    LET svcID == SafeID(StrSvc \o svcName)
        ex    == IF ingresses.err THEN <<>> ELSE connExposing(ingresses.items, svcName)
        f1 == FoldSeq(LAMBDA f, e :
                         LET ingID == SafeID(StrIng \o e.ing)
                         IN  AddEdge(AddStyle(AddNode(f, ingID, e.ing), ingID, "info"),
                                     ingID, svcID, e.path),
                      NewFlowchart, ex)
        f2 == AddNode(f1, svcID, svcName)
        health == GetServiceEndpointHealth(endpoints.obj)
        f3 == IF endpoints.err THEN f2
              ELSE IF health.TotalEndpoints = 0 /\ svc.Selector # {}
              THEN AddStyle(f2, svcID, "critical")
              ELSE IF health.NotReadyCount > 0 THEN AddStyle(f2, svcID, "warning")
              ELSE AddStyle(f2, svcID, "healthy")
        f4 == FoldSeq(LAMBDA f, pod :
                         LET podID == SafeID(PodPrefix \o pod.Name)
                         IN  AddStyle(AddEdge(AddNode(f, podID, pod.Name), svcID, podID, <<>>),
                                      podID, IF isPodHealthy(pod) THEN "healthy" ELSE "critical"),
                      f3, matchedPods)
        firstMatch(np) == CHOOSE i \in 1..Len(matchedPods) :
                             /\ SelectorMatches(np.selector, matchedPods[i].Labels)
                             /\ \A j \in 1..(i - 1) :
                                   ~SelectorMatches(np.selector, matchedPods[j].Labels)
        f5 == IF policies.err \/ svc.Selector = {} THEN f4
              ELSE FoldSeq(LAMBDA f, np :
                              IF \A i \in 1..Len(matchedPods) :
                                    ~SelectorMatches(np.selector, matchedPods[i].Labels)
                              THEN f
                              ELSE LET npID == SafeID(StrNp \o np.name)
                                       podID == SafeID(PodPrefix
                                                       \o matchedPods[firstMatch(np)].Name)
                                   IN  AddEdge(AddStyle(AddNode(f, npID, np.name), npID, "warning"),
                                               npID, podID, <<"restricts">>),
                           f4, policies.items)
    IN  f5

AnalyzeServiceConnectivity ==
    /\ engine = "go_conn" /\ pc = "call"
    /\ IF input.svc.err
       THEN /\ calls' = Append(calls, "GetService")
            /\ lines' = <<Section("Check 1: Service Exists"),
                          FormatFinding("CRITICAL", "service_not_found", N(0)),
                          Section("SUGGESTED ACTIONS")>>
            /\ UNCHANGED <<findings, fc>>
       ELSE LET svc == input.svc.obj
                matchedPods == IF svc.Selector # {} /\ ~input.pods.err
                               THEN input.pods.items ELSE <<>>
                c1 == Chk(<<Section("Check 1: Service Exists"),
                            FormatFinding("INFO", "service_exists", N(0)),
                            Section("Check 2: Selector Matches Pods")>>, 0)
                c2 == connCheckPods(c1, svc, input.pods)
                c3 == connCheckEndpoints([c2 EXCEPT !.lines =
                                            Append(@, Section("Check 3: Endpoints Ready"))],
                                         svc, input.endpoints)
                c4 == connCheckPorts([c3 EXCEPT !.lines =
                                        Append(@, Section("Check 4: Port Mapping Validation"))],
                                     svc, matchedPods)
                c5 == connCheckPolicies([c4 EXCEPT !.lines =
                                           Append(@, Section("Check 5: Network Policies"))],
                                        input.policies, matchedPods)
                c6 == connCheckIngresses([c5 EXCEPT !.lines =
                                            Append(@, Section("Check 6: Ingress Exposure"))],
                                         input.ingresses, svc.Name)
            IN  /\ calls' = calls \o <<"GetService">>
                            \o (IF svc.Selector # {} THEN <<"GetPodsForService">> ELSE <<>>)
                            \o <<"GetServiceEndpointHealth", "ListNetworkPolicies",
                                 "ListIngresses">>
                /\ lines' = c6.lines
                            \o <<Section("Overall Assessment"),
                                 IF c6.n = 0 THEN Text("looks_healthy", N(0))
                                 ELSE Text("issues_found", N(c6.n)),
                                 Section("CONNECTIVITY DIAGRAM")>>
                /\ findings' = c6.n
                /\ fc' = connDiagram(svc, svc.Name, matchedPods, input.endpoints,
                                     input.policies, input.ingresses)
    /\ pc' = "done"
    /\ UNCHANGED <<engine, input, loc, actions>>

NetpolEngines == {"go_netpol", "ts_netpol", "go_conn"}

InitNetpol ==
    /\ engine \in NetpolEngines
    /\ input \in IF engine = "go_conn" THEN ConnInputs ELSE NetpolInputs
    /\ pc = "call"
    /\ loc = [analyses |-> <<>>, chart |-> <<>>]
    /\ lines = <<>>
    /\ findings = 0
    /\ actions = <<>>
    /\ fc = NewFlowchart
    /\ calls = <<>>

NextNetpol ==
    \/ GoAnalyzeNetworkPolicies
    \/ TsAnalyzeNetworkPolicies
    \/ AnalyzeServiceConnectivity

SpecNetpol == InitNetpol /\ [][NextNetpol]_vars

-----------------------------------------------------------------------------
(* Network-policy properties *)

TypesContainIngress(np) == \E i \in 1..Len(np.policyTypes) : np.policyTypes[i] = "Ingress"

\* A policy the claim is about: Ingress among its types, no ingress rule
IngressLockdown(np) == TypesContainIngress(np) /\ Len(np.ingress.rules) = 0

HasLine(l) == \E i \in 1..Len(lines) : lines[i] = l

AllowWhats ==
    {"Ingress Rule: ALLOW", "Allow from pods", "Allow from namespaces", "Allow from CIDR",
     "Allow all sources"}

NoIngressAllowLineFor(np) ==
    \A i \in 1..Len(lines) : ~(lines[i].what \in AllowWhats /\ lines[i].arg.name = np.name)

GoNetpolDenies(np) ==
    /\ HasLine(Text("Ingress: DENY ALL", Named(np.name)))
    /\ HasLine(FormatFinding("CRITICAL", "ingress_denied", Named(np.name)))
    /\ NoIngressAllowLineFor(np)
    /\ \E l \in Range(fc.lines) :
          /\ l.k = "edge" /\ l.to = SafeID(StrDenyTarget \o np.name)
          /\ l.label = <<"denied">>
    /\ \A l \in Range(fc.lines) : ~(l.k = "edge" /\ l.to = SafeID(StrTarget \o np.name))

TsNetpolDenies(np) ==
    /\ \/ HasLine(Text("Deny all ingress", Named(np.name)))
       \/ HasLine(Text("Deny all ingress (no ingress rules defined)", Named(np.name)))
    /\ NoIngressAllowLineFor(np)

ConnMatchedPods ==
    IF input.svc.obj.Selector # {} /\ ~input.pods.err THEN input.pods.items ELSE <<>>

ConnAffects(np) ==
    \E i \in 1..Len(ConnMatchedPods) : SelectorMatches(np.selector, ConnMatchedPods[i].Labels)

\* C7: a network policy whose policyTypes contains Ingress and whose ingress
\* rule list is empty is reported as denying all ingress, and never with an
\* allow line or an allowed inbound edge: by the matrix, the findings and the
\* diagram of analyze_network_policies, by the policy lines of the TS tool,
\* and, for a policy that selects one of the service's pods, by Check 5 of
\* analyze_service_connectivity.
C7_EmptyIngressIsDenyAll ==
    pc = "done" =>
        /\ (engine = "go_netpol" /\ ~input.policiesErr /\ ~input.podsErr) =>
              \A i \in 1..Len(input.policies) :
                  IngressLockdown(input.policies[i]) => GoNetpolDenies(input.policies[i])
        /\ (engine = "ts_netpol" /\ ~input.policiesErr /\ ~input.podsErr) =>
              \A i \in 1..Len(input.policies) :
                  IngressLockdown(input.policies[i]) => TsNetpolDenies(input.policies[i])
        /\ (engine = "go_conn" /\ ~input.svc.err /\ ~input.policies.err) =>
              \A i \in 1..Len(input.policies.items) :
                  (IngressLockdown(input.policies.items[i])
                   /\ ConnAffects(input.policies.items[i])) =>
                      HasLine(FormatFinding("WARNING", "denies_all_ingress",
                                            Named(input.policies.items[i].name)))

\* A finished Go audit of two lockdown policies, one with ingress: [] and one
\* without an ingress field, next to pods they select
C7_Witness ==
    /\ pc = "done" /\ engine = "go_netpol"
    /\ Len(input.policies) = 2 /\ Len(input.pods) > 0
    /\ \A i \in 1..2 : IngressLockdown(input.policies[i])
    /\ \E i \in 1..2 : input.policies[i].ingress.present
    /\ \E i \in 1..2 : ~input.policies[i].ingress.present
    /\ HasLine(Text("Ingress: DENY ALL", Named(NpDenyIn)))
    /\ HasLine(Text("Ingress: DENY ALL", Named(NpDenyNil)))

WarningFindings == SelectSeq(lines, LAMBDA l : IsFinding(l) /\ l.sev = "WARNING")

\* C10: with zero NetworkPolicy objects the audit reports exactly one WARNING
\* finding (default allow), draws a diagram whose only edges are any source ->
\* all pods -> any destination, and writes no per-policy section.
C10_ZeroPoliciesDefaultAllow ==
    (/\ pc = "done" /\ engine \in {"go_netpol", "ts_netpol"}
     /\ ~input.policiesErr /\ ~input.podsErr /\ Len(input.policies) = 0) =>
        /\ Len(WarningFindings) = 1
        /\ Len(FindingLines(lines)) = 1
        /\ [i \in 1..Len(SelectSeq(fc.lines, LAMBDA l : l.k = "edge")) |->
               LET e == SelectSeq(fc.lines, LAMBDA l : l.k = "edge")[i] IN <<e.id, e.to>>]
           = <<<<IdAnySrc, IdNS>>, <<IdNS, IdAnyDst>>>>
        /\ \A i \in 1..Len(lines) : lines[i].what # "policy"

-----------------------------------------------------------------------------
(* Service dependency inference: InferServiceDependencies (pkg/k8s) *)

SvcDb == <<"d", "b">>
NsProd == <<"p", "r", "o", "d">>
SufServiceHost == <<"_", "S", "E", "R", "V", "I", "C", "E", "_", "H", "O", "S", "T">>
StrArrow == <<"-", ">">>

UpperCase == <<"A", "B", "C", "D", "E", "F", "G", "H", "I", "J", "K", "L", "M", "N", "O", "P", "Q", "R", "S", "T", "U", "V", "W", "X", "Y", "Z">>
LowerCase == <<"a", "b", "c", "d", "e", "f", "g", "h", "i", "j", "k", "l", "m", "n", "o", "p", "q", "r", "s", "t", "u", "v", "w", "x", "y", "z">>

\* strings.HasSuffix, strings.TrimSuffix, strings.ReplaceAll on one character,
\* strings.ToLower and strings.Contains, on character sequences
HasSuffix(s, suffix) ==
    /\ Len(suffix) <= Len(s)
    /\ SubSeq(s, Len(s) - Len(suffix) + 1, Len(s)) = suffix

TrimSuffix(s, suffix) ==
    IF HasSuffix(s, suffix) THEN SubSeq(s, 1, Len(s) - Len(suffix)) ELSE s

ReplaceAll(s, old, new) == [i \in 1..Len(s) |-> IF s[i] = old THEN new ELSE s[i]]

ToLower(s) ==
    [i \in 1..Len(s) |->
        IF \E k \in 1..Len(UpperCase) : UpperCase[k] = s[i]
        THEN LowerCase[CHOOSE k \in 1..Len(UpperCase) : UpperCase[k] = s[i]]
        ELSE s[i]]

Contains(s, sub) ==
    \E i \in 0..(Len(s) - Len(sub)) : SubSeq(s, i + 1, i + Len(sub)) = sub

DepService(name, selector) == [Name |-> name, Selector |-> selector]

DepServices ==
    <<DepService(SvcApi, {LabelApi}), DepService(SvcWeb, {LabelWeb}), DepService(SvcDb, {})>>

Env(name, value) == [Name |-> name, Value |-> value]

EnvPool ==
    {Env(<<"W", "E", "B", "_", "S", "E", "R", "V", "I", "C", "E", "_", "H", "O", "S", "T">>, <<"1", "0", ".", "0", ".", "0", ".", "1">>),
     Env(<<"P", "E", "E", "R", "S">>, <<"a", "p", "i", ".", "p", "r", "o", "d", ",", "w", "e", "b", ".", "p", "r", "o", "d", ",", "d", "b", ".", "p", "r", "o", "d">>),
     Env(<<"A", "P", "I", "_", "S", "E", "R", "V", "I", "C", "E", "_", "H", "O", "S", "T">>, <<>>),
     Env(<<"D", "B", "_", "U", "R", "L">>, <<"d", "b", ".", "p", "r", "o", "d", ":", "5", "4", "3", "2">>)}

DepPod(name, labels, envs) ==
    [Name |-> name, Labels |-> labels, Containers |-> <<[Env |-> envs]>>]

DepPodLists ==
    {a \o b : a \in {<<>>} \cup {<<DepPod(Web1, {LabelApi}, e)>> : e \in SeqsUpTo(EnvPool, MaxEnv)},
              b \in {<<>>} \cup {<<DepPod(Web2, {LabelWeb}, e)>> : e \in SeqsUpTo(EnvPool, MaxEnv)}}

DepInputs ==
    {[servicesErr |-> FALSE, services |-> DepServices, podsErr |-> FALSE, pods |-> ps] :
        ps \in DepPodLists}
    \cup {[servicesErr |-> e, services |-> DepServices, podsErr |-> ~e, pods |-> <<>>] :
          e \in BOOLEAN}

ServiceDependency(from, to, confidence) ==
    [FromService |-> from, ToService |-> to, Confidence |-> confidence, Source |-> "env"]

\* The orders in which a range over a map with these keys can visit them
MapOrders(keys) == {o \in Arrangements(keys, Cardinality(keys)) : Len(o) = Cardinality(keys)}

\* A fold whose step has several possible outcomes: all the final states
RECURSIVE FoldSet(_, _, _)
FoldSet(Step(_, _), states, s) ==
    IF s = <<>> THEN states
    ELSE FoldSet(Step, UNION {Step(st, Head(s)) : st \in states}, Tail(s))

\* if !seen[key] { deps = append(deps, ...); seen[key] = true }
depAppend(st, svcName, targetName, confidence) ==
    LET key == svcName \o StrArrow \o targetName
    IN  IF key \in st.seen THEN st
        ELSE [deps |-> Append(st.deps, ServiceDependency(svcName, targetName, confidence)),
              seen |-> st.seen \cup {key}]

\* The body of the loop over the env vars of one container
depEnv(st, svcName, env, svcNames) ==
    LET targetName == ToLower(ReplaceAll(TrimSuffix(env.Name, SufServiceHost), "_", "-"))
        st1 == IF HasSuffix(env.Name, SufServiceHost)
                  /\ targetName \in svcNames /\ targetName # svcName
               THEN depAppend(st, svcName, targetName, "high")
               ELSE st
        hits == {c \in svcNames : c # svcName /\ Contains(env.Value, c \o <<".">> \o NsProd)}
    IN  IF env.Value = <<>> THEN {st1}
        ELSE {FoldSeq(LAMBDA a, c : depAppend(a, svcName, c, "medium"), st1, o) :
                 o \in MapOrders(hits)}

\* svcToPods: a pod goes to the first service (in list order) whose non-empty
\* selector matches its labels
depOwner(services, pod) ==
    LET m == {i \in 1..Len(services) :
                 services[i].Selector # {} /\ services[i].Selector \subseteq pod.Labels}
    IN  IF m = {} THEN 0 ELSE CHOOSE i \in m : \A j \in m : i <= j

\* Every list of dependencies one call can return on this snapshot
InferResults(services, pods) ==
    LET svcNames  == {services[i].Name : i \in 1..Len(services)}
        owned     == SelectSeq(pods, LAMBDA pod : depOwner(services, pod) # 0)
        nameOf(pod) == services[depOwner(services, pod)].Name
        keys      == {nameOf(owned[i]) : i \in 1..Len(owned)}
        envsOf(svcName) ==
            FlatSeq([i \in 1..Len(owned) |->
                IF nameOf(owned[i]) # svcName THEN <<>>
                ELSE FlatSeq([c \in 1..Len(owned[i].Containers) |->
                                 owned[i].Containers[c].Env])])
        perSvc(st, svcName) ==
            FoldSet(LAMBDA s, env : depEnv(s, svcName, env, svcNames), {st}, envsOf(svcName))
        finals == UNION {FoldSet(perSvc, {[deps |-> <<>>, seen |-> {}]}, o) :
                            o \in MapOrders(keys)}
    IN  {st.deps : st \in finals}

-----------------------------------------------------------------------------
(* ListEvents (pkg/k8s) and diagnose_namespace (Go) *)

\* time.Hour, in minutes
OneHour == 60
\* The clock at the first run, and the minutes one clock advance takes
StartTime == 100
TickMinutes == 30

\* An event; a LastTimestamp of 0 is the zero time
Event(type, last, created) == [Type |-> type, LastTimestamp |-> last, CreationTimestamp |-> created]

EventPool == {Event("Warning", 45, 10), Event("Warning", 0, 75), Event("Normal", 80, 10)}

eventTime(e) == IF e.LastTimestamp = 0 THEN e.CreationTimestamp ELSE e.LastTimestamp

\* ListEvents: most recent first, truncated to MaxEvents
ListEvents(listing) ==
    IF listing.err THEN listing
    ELSE LET sorted == SortSlice(listing.items, LAMBDA a, b : eventTime(a) > eventTime(b))
         IN  Listing(FALSE, IF Len(sorted) > MaxEvents THEN SubSeq(sorted, 1, MaxEvents)
                            ELSE sorted)

Deployment(name, replicas, available) ==
    [Name |-> name, Replicas |-> replicas, AvailableReplicas |-> available]

DeploymentListings ==
    {Listing(TRUE, <<>>), Listing(FALSE, <<>>),
     Listing(FALSE, <<Deployment(SvcApi, 1, 1)>>), Listing(FALSE, <<Deployment(SvcWeb, 2, 1)>>)}

PVCListings ==
    {Listing(TRUE, <<>>), Listing(FALSE, <<>>), Listing(FALSE, <<"Bound">>),
     Listing(FALSE, <<"Pending">>)}

DiagNsInputs ==
    [pods        : PodListings,
     deployments : DeploymentListings,
     events      : {Listing(TRUE, <<>>)}
                   \cup {Listing(FALSE, l) : l \in SeqsUpTo(EventPool, MaxListed)},
     pvcs        : PVCListings]

\* The report of diagnose_namespace when the clock reads `now`
diagnoseNamespace(in, now) ==
    IF in.pods.err THEN [lines |-> <<Text("error", N(0))>>, n |-> 0]
    ELSE LET pods == in.pods.items
             unhealthyPods   == Len(SelectSeq(pods, LAMBDA p : ~isPodHealthy(p)))
             highRestartPods == Len(SelectSeq(pods, LAMBDA p :
                                       podContainerSummary(p).restarts > HighRestartThreshold))
             c1 == Chk(<<Section("Pod Summary"),
                         Text("pod_totals", NM(unhealthyPods, highRestartPods))>>, 0)
             c2 == IF unhealthyPods > 0
                   THEN Chk(c1.lines \o <<FormatFinding("CRITICAL", "unhealthy_pods",
                                                        N(unhealthyPods))>>
                            \o [i \in 1..unhealthyPods |->
                                  Text("unhealthy_pod",
                                       Named(SelectSeq(pods, LAMBDA p : ~isPodHealthy(p))[i].Name))],
                            c1.n + 1)
                   ELSE c1
             c3 == IF highRestartPods > 0
                   THEN Chk(c2.lines \o <<FormatFinding("WARNING", "high_restart_pods",
                                                        N(highRestartPods))>>
                            \o [i \in 1..highRestartPods |->
                                  Text("high_restart_pod",
                                       Named(SelectSeq(pods, LAMBDA p :
                                                podContainerSummary(p).restarts
                                                    > HighRestartThreshold)[i].Name))],
                            c2.n + 1)
                   ELSE c2
             failing == IF in.deployments.err THEN <<>>
                        ELSE SelectSeq(in.deployments.items,
                                       LAMBDA d : d.AvailableReplicas < d.Replicas)
             c4 == IF Len(failing) > 0
                   THEN Chk(c3.lines \o <<FormatFinding("WARNING", "deployments_unavailable",
                                                        N(Len(failing)))>>
                            \o [i \in 1..Len(failing) |->
                                  Text("deployment", Named(failing[i].Name))],
                            c3.n + 1)
                   ELSE c3
             events == ListEvents(in.events)
             oneHourAgo == now - OneHour
             warningCount == IF events.err THEN 0
                             ELSE Len(SelectSeq(events.items, LAMBDA e :
                                         e.Type = "Warning" /\ eventTime(e) > oneHourAgo))
             c5 == IF warningCount > 0
                   THEN Chk(Append(c4.lines, FormatFinding("WARNING", "warning_events_last_hour",
                                                           N(warningCount))), c4.n + 1)
                   ELSE c4
             pending == IF in.pvcs.err THEN <<>>
                        ELSE SelectSeq(in.pvcs.items, LAMBDA phase : phase # "Bound")
             c6 == IF Len(pending) > 0
                   THEN Chk(c5.lines \o <<FormatFinding("WARNING", "pvcs_not_bound",
                                                        N(Len(pending)))>>
                            \o [i \in 1..Len(pending) |-> Text("pvc", N(i))],
                            c5.n + 1)
                   ELSE c5
         IN  [lines |-> c6.lines \o <<Section("Overall Assessment"),
                                      IF c6.n = 0 THEN Text("appears_healthy", N(0))
                                      ELSE Text("issues_found", N(c6.n))>>,
              n |-> c6.n]

-----------------------------------------------------------------------------
(* One engine run twice on one cluster snapshot *)

IdemEngines == {"go_deps", "go_diag_ns"}

NoRun == [lines |-> <<>>, deps |-> <<>>]

InitIdem ==
    /\ engine \in IdemEngines
    /\ input \in IF engine = "go_deps" THEN DepInputs ELSE DiagNsInputs
    /\ pc = "call"
    /\ loc = [now |-> StartTime, deps |-> <<>>, first |-> NoRun]
    /\ lines = <<>>
    /\ findings = 0
    /\ actions = <<>>
    /\ fc = NewFlowchart
    /\ calls = <<>>

\* InferServiceDependencies, first or second run
InferServiceDependencies ==
    /\ engine = "go_deps" /\ pc \in {"call", "again"}
    /\ IF input.servicesErr \/ input.podsErr
       THEN /\ lines' = <<Text("error", N(0))>>
            /\ loc' = [loc EXCEPT !.deps = <<>>,
                                  !.first = IF pc = "call"
                                            THEN [lines |-> lines', deps |-> <<>>] ELSE @]
            /\ calls' = IF input.servicesErr THEN Append(calls, "Services.List")
                        ELSE calls \o <<"Services.List", "Pods.List">>
       ELSE \E deps \in InferResults(input.services, input.pods) :
            /\ lines' = <<>>
            /\ loc' = [loc EXCEPT !.deps = deps,
                                  !.first = IF pc = "call"
                                            THEN [lines |-> <<>>, deps |-> deps] ELSE @]
            /\ calls' = calls \o <<"Services.List", "Pods.List">>
    /\ pc' = IF pc = "call" THEN "again" ELSE "done"
    /\ UNCHANGED <<engine, input, findings, actions, fc>>

\* diagnose_namespace, first or second run
DiagnoseNamespace ==
    /\ engine = "go_diag_ns" /\ pc \in {"call", "again"}
    /\ LET r == diagnoseNamespace(input, loc.now)
       IN  /\ lines' = r.lines
           /\ findings' = r.n
           /\ loc' = [loc EXCEPT !.first = IF pc = "call"
                                           THEN [lines |-> r.lines, deps |-> <<>>] ELSE @]
    /\ calls' = IF input.pods.err THEN Append(calls, "ListPods")
                ELSE calls \o <<"ListPods", "ListDeployments", "ListEvents", "ListPVCs">>
    /\ pc' = IF pc = "call" THEN "again" ELSE "done"
    /\ UNCHANGED <<engine, input, actions, fc>>

\* Time passes between the two runs; the cluster does not change
Tick ==
    /\ pc = "again"
    /\ loc.now < StartTime + MaxTicks * TickMinutes
    /\ loc' = [loc EXCEPT !.now = @ + TickMinutes]
    /\ UNCHANGED <<engine, input, pc, lines, findings, actions, fc, calls>>

NextIdem == InferServiceDependencies \/ DiagnoseNamespace \/ Tick

SpecIdem == InitIdem /\ [][NextIdem]_vars

DepEdges(deps) == {<<deps[i].FromService, deps[i].ToService>> : i \in 1..Len(deps)}

\* The dependency engine alone: both runs return the same dependencies (and
\* so the same topology edges), whatever the map iteration orders
DepsSameSet ==
    (pc = "done" /\ engine = "go_deps") => Range(loc.deps) = Range(loc.first.deps)

\* Two runs whose dependency lists differ in order only
DepsOrderDiffers ==
    /\ pc = "done" /\ engine = "go_deps"
    /\ loc.deps # loc.first.deps /\ Range(loc.deps) = Range(loc.first.deps)

\* C8: two runs of one engine on an unchanged cluster snapshot give the same
\* set of findings and the same sets of diagram nodes and edges.
C8_RunTwiceSameSets ==
    pc = "done" =>
        /\ Range(FindingLines(lines)) = Range(FindingLines(loc.first.lines))
        /\ Range(loc.deps) = Range(loc.first.deps)
        /\ DepEdges(loc.deps) = DepEdges(loc.first.deps)

-----------------------------------------------------------------------------
(* DNS health: check_dns_health (Go) and CheckDNSHealthTool (TS) *)

LabelKubeDns == "k8s-app=kube-dns"
LabelCoreDns == "app.kubernetes.io/name=coredns"
PrefixCoreDns == <<"c", "o", "r", "e", "d", "n", "s", "-">>

\* A pod of kube-system. LastTerminated is the reason of
\* LastTerminationState.Terminated ("nil" when absent); Conditions holds the
\* status of each PodReady condition.
DnsStatus(ready, waiting, restarts, lastTerminated) ==
    [Ready |-> ready, Waiting |-> waiting, Terminated |-> "nil", RestartCount |-> restarts,
     LastTerminated |-> lastTerminated]

DnsPod(name, labels, phase, statuses, ready, containers) ==
    [Name |-> name, Labels |-> labels, Phase |-> phase, Reason |-> "",
     ContainerStatuses |-> statuses, InitContainerStatuses |-> <<>>,
     Conditions |-> ready, Containers |-> containers]

DnsPodPool ==
    <<DnsPod(<<"c", "o", "r", "e", "d", "n", "s", "-", "a">>, {LabelKubeDns}, "Running",
             <<DnsStatus(TRUE, "nil", 0, "nil")>>, <<"True">>, <<[Name |-> <<"c", "o", "r", "e", "d", "n", "s">>]>>),
      DnsPod(<<"k", "u", "b", "e", "-", "d", "n", "s", "-", "b">>, {LabelCoreDns}, "Running",
             <<DnsStatus(FALSE, "CrashLoopBackOff", 7, "OOMKilled")>>, <<"False">>,
             <<[Name |-> <<"s", "i", "d", "e", "c", "a", "r">>], [Name |-> <<"k", "u", "b", "e", "d", "n", "s">>]>>),
      DnsPod(<<"c", "o", "r", "e", "d", "n", "s", "-", "c">>, {}, "Pending", <<DnsStatus(FALSE, "nil", 1, "nil")>>, <<>>,
             <<[Name |-> <<"m", "a", "i", "n">>]>>),
      DnsPod(<<"k", "u", "b", "e", "-", "p", "r", "o", "x", "y", "-", "d">>, {}, "Running", <<DnsStatus(TRUE, "nil", 0, "nil")>>, <<"True">>,
             <<[Name |-> <<"m", "a", "i", "n">>]>>)>>

\* The log of one pod: each entry is a line and the number of times it occurs
LogLine(text, times) == [text |-> text, times |-> times]

TextServfail == <<"S", "E", "R", "V", "F", "A", "I", "L">>
TextTimeout  == <<"u", "d", "p", ":", " ", "i", "/", "o", " ", "t", "i", "m", "e", "o", "u", "t">>
TextNxdomain == <<"N", "X", "D", "O", "M", "A", "I", "N">>
TextOk       == <<"o", "k">>

LogResults ==
    {Got(TRUE, <<>>), Got(FALSE, <<>>), Got(FALSE, <<LogLine(TextOk, 1)>>),
     Got(FALSE, <<LogLine(TextServfail, 11), LogLine(TextOk, 1)>>),
     Got(FALSE, <<LogLine(TextServfail, 51), LogLine(TextTimeout, 1)>>),
     Got(FALSE, <<LogLine(TextNxdomain, 101)>>)}

\* The kube-system pods, which of the three list calls fail, whether the
\* kube-dns service can be read, and the log of the k-th pod
DnsInputs ==
    UNION {[pods : {ps}, err1 : BOOLEAN, err2 : BOOLEAN, err3 : BOOLEAN, svcErr : BOOLEAN,
            logs : [1..Len(ps) -> LogResults]] : ps \in SubLists(DnsPodPool, MaxDnsPods)}

\* ListPods(kube-system, LabelSelector: label)
listByLabel(pods, label) == SelectSeq(pods, LAMBDA pod : label \in pod.Labels)

goErrorPatterns ==
    <<<<"S", "E", "R", "V", "F", "A", "I", "L">>, <<"N", "X", "D", "O", "M", "A", "I", "N">>, <<"R", "E", "F", "U", "S", "E", "D">>,
      <<"i", "/", "o", " ", "t", "i", "m", "e", "o", "u", "t">>, <<"c", "o", "n", "n", "e", "c", "t", "i", "o", "n", " ", "r", "e", "f", "u", "s", "e", "d">>,
      <<"n", "o", " ", "s", "u", "c", "h", " ", "h", "o", "s", "t">>, <<"p", "l", "u", "g", "i", "n", "/", "e", "r", "r", "o", "r", "s">>, <<"E", "R", "R", "O", "R">>>>

PatServfail == <<"S", "E", "R", "V", "F", "A", "I", "L">>
PatNxdomain == <<"N", "X", "D", "O", "M", "A", "I", "N">>
PatTimeout == <<"t", "i", "m", "e", "o", "u", "t">>
PatIoTimeout == <<"i", "/", "o", " ", "t", "i", "m", "e", "o", "u", "t">>
PatRefused == <<"r", "e", "f", "u", "s", "e", "d">>
PatConnRefused == <<"c", "o", "n", "n", "e", "c", "t", "i", "o", "n", " ", "r", "e", "f", "u", "s", "e", "d">>

\* The count of the entry of errorPatterns with the given pattern
goPatternCount(count, pattern) ==
    SumSeq([idx \in 1..Len(goErrorPatterns) |->
               IF goErrorPatterns[idx] = pattern THEN count[idx] ELSE 0])

\* The number of lines of a log that contain a pattern
goCount(log, pattern) ==
    SumSeq([i \in 1..Len(log) |-> IF Contains(log[i].text, pattern) THEN log[i].times ELSE 0])

CallList1 == "ListPods k8s-app=kube-dns"
CallList2 == "ListPods app.kubernetes.io/name=coredns"
CallList3 == "ListPods"

Found(err, pods, cs) == [err |-> err, pods |-> pods, calls |-> cs]

\* check_dns_health (Go), locating the CoreDNS pods: the first label, then the
\* second label, then every pod of kube-system filtered by name prefix. An
\* error of one of the first two list calls is returned; an error of the third
\* is dropped and its (nil) list is filtered.
goFindCoreDNSPods(in) ==
    IF in.err1 THEN Found(TRUE, <<>>, <<CallList1>>)
    ELSE LET first == listByLabel(in.pods, LabelKubeDns)
         IN  IF Len(first) # 0 THEN Found(FALSE, first, <<CallList1>>)
             ELSE IF in.err2 THEN Found(TRUE, <<>>, <<CallList1, CallList2>>)
             ELSE LET second == listByLabel(in.pods, LabelCoreDns)
                  IN  IF Len(second) # 0
                      THEN Found(FALSE, second, <<CallList1, CallList2>>)
                      ELSE LET allPods == IF in.err3 THEN <<>> ELSE in.pods
                           IN  Found(FALSE,
                                     SelectSeq(allPods,
                                               LAMBDA pod : HasPrefix(pod.Name, PrefixCoreDns)),
                                     <<CallList1, CallList2, CallList3>>)

\* The findings of one CoreDNS pod, in the order they are written
goDnsPodFindings(p) ==
    LET restarts == podContainerSummary(p).restarts
        byStatus(cs) ==
            (IF cs.Waiting = "CrashLoopBackOff"
             THEN <<FormatFinding("CRITICAL", "crash_loop", Named(p.Name))>> ELSE <<>>)
            \o (IF cs.LastTerminated = "OOMKilled"
                THEN <<FormatFinding("CRITICAL", "oom_killed", Named(p.Name))>> ELSE <<>>)
    IN  (IF p.Phase # "Running"
         THEN <<FormatFinding("CRITICAL", "not_running", Named(p.Name))>> ELSE <<>>)
        \o (IF restarts > HighRestartThreshold
            THEN <<FormatFinding("WARNING", "restarts", NamedN(p.Name, restarts))>>
            ELSE IF restarts > 0
            THEN <<FormatFinding("INFO", "restarts", NamedN(p.Name, restarts))>>
            ELSE <<>>)
        \o FlatSeq([i \in 1..Len(p.Conditions) |->
                       IF p.Conditions[i] # "True"
                       THEN <<FormatFinding("CRITICAL", "not_ready", Named(p.Name))>>
                       ELSE <<>>])
        \o FlatSeq([i \in 1..Len(p.ContainerStatuses) |-> byStatus(p.ContainerStatuses[i])])

\* The lines of the log scan of the k-th pod, given the result of GetPodLogs
goDnsLogLines(p, res) ==
    IF res.err THEN <<Text("could_not_fetch_logs", Named(p.Name))>>
    ELSE IF res.obj = <<>> THEN <<Text("no_logs_available", Named(p.Name))>>
    ELSE LET counts == [idx \in 1..Len(goErrorPatterns) |->
                            goCount(res.obj, goErrorPatterns[idx])]
         IN  <<Text("log_scan", Named(p.Name))>>
             \o FlatSeq([idx \in 1..Len(goErrorPatterns) |->
                            IF counts[idx] > 0
                            THEN <<Text("occurrences", NamedN(goErrorPatterns[idx], counts[idx]))>>
                            ELSE <<>>])
             \o (IF SumSeq(counts) = 0 THEN <<Text("no_error_patterns", N(0))>> ELSE <<>>)

\* errorPatterns[idx].count after every pod was scanned
goDnsPatternCount(pods, logs, idx) ==
    SumSeq([k \in 1..Len(pods) |->
               IF logs[k].err THEN 0 ELSE goCount(logs[k].obj, goErrorPatterns[idx])])

goDnsLogFindings(count) ==
    FlatSeq([idx \in 1..Len(goErrorPatterns) |->
        (IF count[idx] > 50 /\ goErrorPatterns[idx] = PatServfail
         THEN <<FormatFinding("CRITICAL", "high_servfail", N(count[idx]))>>
         ELSE IF count[idx] > 10 /\ goErrorPatterns[idx] = PatServfail
         THEN <<FormatFinding("WARNING", "elevated_servfail", N(count[idx]))>>
         ELSE <<>>)
        \o (IF count[idx] > 100 /\ goErrorPatterns[idx] = PatNxdomain
            THEN <<FormatFinding("INFO", "high_nxdomain", N(count[idx]))>> ELSE <<>>)
        \o (IF count[idx] > 0 /\ goErrorPatterns[idx] \in {PatIoTimeout, PatConnRefused}
            THEN <<FormatFinding("WARNING", "upstream", NamedN(goErrorPatterns[idx], count[idx]))>>
            ELSE <<>>)])

goDnsActions(pods, healthyPods, count) ==
    (IF healthyPods = 0 THEN <<Act("urgent_no_healthy_coredns", N(0))>> ELSE <<>>)
    \o (IF Len(pods) < 2 THEN <<Act("scale_coredns", N(0))>> ELSE <<>>)
    \o (IF goPatternCount(count, PatServfail) > 10 THEN <<Act("investigate_servfail", N(0))>> ELSE <<>>)
    \o (IF goPatternCount(count, PatIoTimeout) > 0 \/ goPatternCount(count, PatConnRefused) > 0
        THEN <<Act("check_upstream", N(0))>> ELSE <<>>)

\* The report of check_dns_health once CoreDNS pods were found. The kube-dns
\* service finding is written before findingsCount exists.
goDnsReport(in, pods) ==
    LET podFindings == FlatSeq([k \in 1..Len(pods) |-> goDnsPodFindings(pods[k])])
        replica == IF Len(pods) < 2
                   THEN <<FormatFinding("WARNING", "no_redundancy", N(Len(pods)))>> ELSE <<>>
        healthyPods == Cardinality(SelectIdx(pods, LAMBDA p : p.Phase = "Running"))
        count == [idx \in 1..Len(goErrorPatterns) |-> goDnsPatternCount(pods, in.logs, idx)]
        logFindings == goDnsLogFindings(count)
        totalErrors == SumSeq(count)
        findingsCount == Len(podFindings) + Len(replica) + Len(logFindings)
    IN  [lines |->
            (IF in.svcErr THEN <<FormatFinding("WARNING", "kube_dns_service_not_found", N(0))>>
             ELSE <<Text("service", N(0))>>)
            \o <<Section("CoreDNS Pod Status")>>
            \o [k \in 1..Len(pods) |->
                   Line("row", podPhaseReason(pods[k]), "pod",
                        [name |-> pods[k].Name, n |-> podContainerSummary(pods[k]).ready,
                         m |-> podContainerSummary(pods[k]).restarts])]
            \o <<Section("FINDINGS")>> \o podFindings \o replica
            \o <<Section("Log Analysis")>>
            \o FlatSeq([k \in 1..Len(pods) |-> goDnsLogLines(pods[k], in.logs[k])])
            \o logFindings
            \o <<Section("Overall DNS Assessment")>>
            \o (IF findingsCount = 0 THEN <<Text("healthy", N(0))>>
                ELSE <<Text("issues_found", N(findingsCount))>>)
            \o <<Text("pods_running", NM(healthyPods, Len(pods)))>>
            \o (IF findingsCount # 0 /\ totalErrors > 0
                THEN <<Text("total_error_patterns", N(totalErrors))>> ELSE <<>>),
         n |-> findingsCount,
         actions |-> goDnsActions(pods, healthyPods, count),
         calls |-> <<"GetService">> \o [k \in 1..Len(pods) |-> "GetPodLogs"]]

DnsEngines == {"go_dns", "ts_dns"}

InitDns ==
    /\ engine \in DnsEngines
    /\ input \in DnsInputs
    /\ pc = "call"
    /\ loc = [err |-> FALSE]
    /\ lines = <<>>
    /\ findings = 0
    /\ actions = <<>>
    /\ fc = NewFlowchart
    /\ calls = <<>>

\* check_dns_health (Go)
CheckDnsHealth ==
    /\ engine = "go_dns" /\ pc = "call"
    /\ LET found == goFindCoreDNSPods(input)
           rep == goDnsReport(input, found.pods)
       IN  IF found.err
           THEN /\ loc' = [err |-> TRUE]
                /\ calls' = found.calls
                /\ UNCHANGED <<lines, findings, actions>>
           ELSE IF Len(found.pods) = 0
           THEN /\ lines' = <<FormatFinding("CRITICAL", "no_coredns_pods", N(0)),
                              Text("dns_will_not_work", N(0)),
                              Text("check_if_deployed", N(0))>>
                /\ calls' = found.calls
                /\ UNCHANGED <<loc, findings, actions>>
           ELSE /\ lines' = rep.lines
                /\ findings' = rep.n
                /\ actions' = rep.actions
                /\ calls' = found.calls \o rep.calls
                /\ UNCHANGED loc
    /\ pc' = "done"
    /\ UNCHANGED <<engine, input, fc>>

tsErrorPatterns ==
    <<<<"S", "E", "R", "V", "F", "A", "I", "L">>, <<"N", "X", "D", "O", "M", "A", "I", "N">>, <<"t", "i", "m", "e", "o", "u", "t">>,
      <<"r", "e", "f", "u", "s", "e", "d">>, <<"c", "o", "n", "n", "e", "c", "t", "i", "o", "n", " ", "r", "e", "f", "u", "s", "e", "d">>,
      <<"i", "/", "o", " ", "t", "i", "m", "e", "o", "u", "t">>, <<"n", "o", " ", "s", "u", "c", "h", " ", "h", "o", "s", "t">>>>

tsLowerPatterns == [idx \in 1..Len(tsErrorPatterns) |-> ToLower(tsErrorPatterns[idx])]

\* The first pattern a line contains, ignoring case (<<>>: none)
tsFirstPattern(text) ==
    LET lower == ToLower(text)
        hits == {idx \in 1..Len(tsErrorPatterns) : Contains(lower, tsLowerPatterns[idx])}
    IN  IF hits = {} THEN <<>>
        ELSE tsErrorPatterns[CHOOSE idx \in hits : \A j \in hits : idx <= j]

\* logErrors: the patterns in the order they were first seen, with their counts
tsLogErrors(pods, logs) ==
    LET entries == FlatSeq([k \in 1..Len(pods) |-> IF logs[k].err THEN <<>> ELSE logs[k].obj])
        seen == [i \in 1..Len(entries) |->
                    [pattern |-> tsFirstPattern(entries[i].text), times |-> entries[i].times]]
        hit == SelectSeq(seen, LAMBDA e : e.pattern # <<>>)
        keys == Dedup([i \in 1..Len(hit) |-> hit[i].pattern])
    IN  [i \in 1..Len(keys) |->
            [pattern |-> keys[i],
             count |-> SumSeq([j \in 1..Len(hit) |->
                                  IF hit[j].pattern = keys[i] THEN hit[j].times ELSE 0])]]

tsLogCount(logErrors, pattern) ==
    SumSeq([i \in 1..Len(logErrors) |->
               IF logErrors[i].pattern = pattern THEN logErrors[i].count ELSE 0])

tsDnsSeverity(pattern) ==
    IF pattern \in {PatServfail, PatTimeout, PatIoTimeout} THEN "WARNING" ELSE "INFO"

tsDnsPodFindings(pod) ==
    (IF ~tsIsPodHealthy(pod)
     THEN <<FormatFinding("CRITICAL", "unhealthy", Named(pod.Name))>> ELSE <<>>)
    \o (IF podContainerSummary(pod).restarts > 5
        THEN <<FormatFinding("WARNING", "high_restart_count",
                             NamedN(pod.Name, podContainerSummary(pod).restarts))>>
        ELSE <<>>)

tsDnsActions(pods, logErrors) ==
    FlatSeq([k \in 1..Len(pods) |->
                IF ~tsIsPodHealthy(pods[k])
                THEN <<Act("investigate_unhealthy_pod", Named(pods[k].Name))>> ELSE <<>>])
    \o (IF tsLogCount(logErrors, PatServfail) # 0
        THEN <<Act("servfail_detected", N(0))>> ELSE <<>>)
    \o (IF tsLogCount(logErrors, PatTimeout) # 0 \/ tsLogCount(logErrors, PatIoTimeout) # 0
        THEN <<Act("timeout_detected", N(0))>> ELSE <<>>)
    \o (IF tsLogCount(logErrors, PatNxdomain) # 0
        THEN <<Act("nxdomain_detected", N(0))>> ELSE <<>>)
    \o (IF tsLogCount(logErrors, PatRefused) # 0 \/ tsLogCount(logErrors, PatConnRefused) # 0
        THEN <<Act("connection_refused", N(0))>> ELSE <<>>)
    \o (IF Len(pods) < 2 THEN <<Act("scale_coredns", N(Len(pods)))>> ELSE <<>>)

tsDnsReport(in, pods) ==
    LET podFindings == FlatSeq([k \in 1..Len(pods) |-> tsDnsPodFindings(pods[k])])
        logErrors == tsLogErrors(pods, in.logs)
        sorted == SortSlice(logErrors, LAMBDA a, b : a.count > b.count)
        logLines == [i \in 1..Len(sorted) |->
                        FormatFinding(tsDnsSeverity(sorted[i].pattern), "occurrences",
                                      NamedN(sorted[i].pattern, sorted[i].count))]
        totalLogLines == SumSeq([k \in 1..Len(pods) |->
                                    IF in.logs[k].err THEN 0
                                    ELSE SumSeq([j \in 1..Len(in.logs[k].obj) |->
                                                    in.logs[k].obj[j].times])])
        n == Len(podFindings)
             + Cardinality(SelectIdx(sorted, LAMBDA e : tsDnsSeverity(e.pattern) = "WARNING"))
    IN  [lines |->
            <<Section("Pod Status")>> \o podFindings
            \o [k \in 1..Len(pods) |->
                   Line("row", podPhaseReason(pods[k]), "pod",
                        [name |-> pods[k].Name, n |-> podContainerSummary(pods[k]).ready,
                         m |-> podContainerSummary(pods[k]).restarts])]
            \o <<Section("Log Analysis")>>
            \o FlatSeq([k \in 1..Len(pods) |->
                           IF in.logs[k].err
                           THEN <<Text("could_not_fetch_logs", Named(pods[k].Name))>>
                           ELSE <<>>])
            \o <<Text("scanned", NM(totalLogLines, SumSeq([i \in 1..Len(sorted) |->
                                                              sorted[i].count])))>>
            \o logLines
            \o <<Section("Assessment")>>
            \o (IF n = 0 THEN <<Text("healthy", N(0))>> ELSE <<Text("issues_found", N(n))>>),
         n |-> n,
         actions |-> tsDnsActions(pods, logErrors),
         calls |-> [k \in 1..Len(pods) |-> "GetPodLogs"]]

\* CheckDNSHealthTool.invoke (TS): one list call, by the label k8s-app=kube-dns
TsCheckDnsHealth ==
    /\ engine = "ts_dns" /\ pc = "call"
    /\ LET dnsPods == listByLabel(input.pods, LabelKubeDns)
           rep == tsDnsReport(input, dnsPods)
       IN  IF input.err1
           THEN /\ loc' = [err |-> TRUE]
                /\ calls' = <<CallList1>>
                /\ UNCHANGED <<lines, findings, actions>>
           ELSE IF Len(dnsPods) = 0
           THEN /\ lines' = <<Text("found_pods", N(0)),
                              FormatFinding("CRITICAL", "no_coredns_pods", N(0))>>
                /\ actions' = <<Act("verify_coredns_deployed", N(0)),
                                Act("check_different_labels", N(0)),
                                Act("ensure_not_scaled_to_zero", N(0))>>
                /\ calls' = <<CallList1>>
                /\ UNCHANGED <<loc, findings>>
           ELSE /\ lines' = <<Text("found_pods", N(Len(dnsPods)))>> \o rep.lines
                /\ findings' = rep.n
                /\ actions' = rep.actions
                /\ calls' = <<CallList1>> \o rep.calls
                /\ UNCHANGED loc
    /\ pc' = "done"
    /\ UNCHANGED <<engine, input, fc>>

NextDns == CheckDnsHealth \/ TsCheckDnsHealth

SpecDns == InitDns /\ [][NextDns]_vars

\* No kube-system pod is found by any strategy, and every list call succeeds
NoCoreDNSPodAnywhere ==
    /\ ~input.err1 /\ ~input.err2 /\ ~input.err3
    /\ \A i \in 1..Len(input.pods) :
          /\ LabelKubeDns \notin input.pods[i].Labels
          /\ LabelCoreDns \notin input.pods[i].Labels
          /\ ~HasPrefix(input.pods[i].Name, PrefixCoreDns)

OneCriticalNoPods ==
    /\ Len(FindingLines(lines)) = 1
    /\ FindingLines(lines)[1] = FormatFinding("CRITICAL", "no_coredns_pods", N(0))

\* The assessment section is written and states that 0 pods are running
AssessmentStatesZeroRunning ==
    /\ \E i \in 1..Len(lines) :
          lines[i] \in {Section("Overall DNS Assessment"), Section("Assessment")}
    /\ \E i \in 1..Len(lines) :
          /\ lines[i].t = "text"
          /\ lines[i].what \in {"pods_running", "found_pods"}
          /\ lines[i].arg.n = 0

\* C11: when no pod matches any of the three CoreDNS discovery strategies, the
\* DNS health check yields exactly one Critical finding that no CoreDNS pods
\* were found, attempts no log analysis, and its overall assessment section
\* states that the number of running pods is 0.
C11_NoPodsOneCriticalAndAssessment ==
    (engine \in DnsEngines /\ pc = "done" /\ NoCoreDNSPodAnywhere) =>
        /\ OneCriticalNoPods
        /\ "GetPodLogs" \notin Range(calls)
        /\ AssessmentStatesZeroRunning

\* The part of C11 that the handlers do fulfil: one Critical finding, no log read
C11_OneCriticalNoLogs ==
    (engine \in DnsEngines /\ pc = "done" /\ NoCoreDNSPodAnywhere) =>
        (OneCriticalNoPods /\ "GetPodLogs" \notin Range(calls))

\* What each strategy returns on the input's pods
ByKubeDnsLabel == listByLabel(input.pods, LabelKubeDns)
ByCoreDnsLabel == listByLabel(input.pods, LabelCoreDns)
ByNamePrefix == SelectSeq(input.pods, LAMBDA pod : HasPrefix(pod.Name, PrefixCoreDns))

\* The list calls a first-non-empty-wins search makes, and the pods it ends with
StrategyCalls ==
    <<CallList1>>
    \o (IF ByKubeDnsLabel = <<>> THEN <<CallList2>> ELSE <<>>)
    \o (IF ByKubeDnsLabel = <<>> /\ ByCoreDnsLabel = <<>> THEN <<CallList3>> ELSE <<>>)

StrategyWinner ==
    IF ByKubeDnsLabel # <<>> THEN ByKubeDnsLabel
    ELSE IF ByCoreDnsLabel # <<>> THEN ByCoreDnsLabel
    ELSE ByNamePrefix

ListCallsMade == SelectSeq(calls, LAMBDA c : c \in {CallList1, CallList2, CallList3})

ReportedPods ==
    LET rows == SelectSeq(lines, LAMBDA l : l.t = "row")
    IN  [i \in 1..Len(rows) |-> rows[i].arg.name]

FollowsStrategyOrder ==
    /\ ListCallsMade = StrategyCalls
    /\ ReportedPods = [i \in 1..Len(StrategyWinner) |-> StrategyWinner[i].Name]
    /\ HasLine(FormatFinding("CRITICAL", "no_coredns_pods", N(0))) <=> (StrategyWinner = <<>>)

\* C13: DNS health locates CoreDNS pods by trying three strategies in a fixed
\* order (label k8s-app=kube-dns, then label app.kubernetes.io/name=coredns,
\* then a name-prefix scan); the first strategy with a non-empty result wins,
\* a later strategy is tried exactly when all earlier ones returned nothing,
\* and only absence after all three is reported as Critical.
C13_ThreeStrategiesInOrder ==
    (engine \in DnsEngines /\ pc = "done" /\ ~input.err1 /\ ~input.err2 /\ ~input.err3) =>
        FollowsStrategyOrder

\* The Go handler alone follows the order when no list call fails
C13_GoThreeStrategiesInOrder ==
    (engine = "go_dns" /\ pc = "done" /\ ~input.err1 /\ ~input.err2 /\ ~input.err3) =>
        FollowsStrategyOrder

-----------------------------------------------------------------------------
(* Service diagnosis: diagnose_service (Go) and DiagnoseServiceTool (TS) *)

\* What the accessor returns to one diagnosis of the service api. A selector
\* is the set of its "k=v" labels.
DiagServiceResults ==
    {Got(TRUE, NoSvc), Got(FALSE, Svc(SvcApi, {}, {80})), Got(FALSE, Svc(SvcApi, {LabelApi}, {80}))}

\* Endpoints with one ready address and none not ready
SubsetsReady == [subsets |-> <<SubsetPool[2]>>]

DiagEndpointsResults ==
    {Got(TRUE, [subsets |-> <<>>]), Got(FALSE, [subsets |-> <<>>]),
     Got(FALSE, [subsets |-> <<SubsetPool[1]>>]), Got(FALSE, [subsets |-> <<SubsetPool[2]>>]),
     Got(FALSE, [subsets |-> <<SubsetPool[3]>>])}

DiagMetricsListings ==
    {Listing(TRUE, <<>>), Listing(FALSE, <<>>),
     Listing(FALSE, <<PodMetrics(Web1, 95, 50), PodMetrics(Web3, 10, 0)>>)}

DiagIngressListings ==
    {Listing(TRUE, <<>>), Listing(FALSE, <<>>), Listing(FALSE, <<IngressPool[1], IngressPool[4]>>)}

DiagPolicyListings ==
    {Listing(TRUE, <<>>), Listing(FALSE, <<>>)}
    \cup {Listing(FALSE, <<np>>) : np \in {q \in PolicyPool : q.name \in {NpDenyIn, NpEgressOnly}}}

DiagInputs ==
    [svc : DiagServiceResults, endpoints : DiagEndpointsResults, pods : PodListings,
     metrics : DiagMetricsListings, ingresses : DiagIngressListings,
     policies : DiagPolicyListings, events : EventResults]

\* matchesSvcSelector: every label of the policy's selector is a label of the
\* service's selector
matchesSvcSelector(policyLabels, svcLabels) ==
    \A i \in 1..Len(policyLabels) : policyLabels[i] \in svcLabels

\* 2. Endpoint health
dsEndpoints(ep) ==
    LET epHealth == GetServiceEndpointHealth(ep.obj)
    IN  IF ep.err THEN Acc(<<FormatFinding("CRITICAL", "could_not_get_endpoints", N(0))>>, 1, <<>>)
        ELSE IF epHealth.TotalEndpoints = 0
        THEN Acc(<<Text("endpoints", NM(epHealth.ReadyCount, epHealth.NotReadyCount)),
                   FormatFinding("CRITICAL", "zero_endpoints", N(0))>>, 1, <<>>)
        ELSE IF epHealth.NotReadyCount > 0
        THEN Acc(<<Text("endpoints", NM(epHealth.ReadyCount, epHealth.NotReadyCount)),
                   FormatFinding("WARNING", "endpoints_not_ready", N(epHealth.NotReadyCount))>>,
                 1, <<>>)
        ELSE Acc(<<Text("endpoints", NM(epHealth.ReadyCount, epHealth.NotReadyCount)),
                   FormatFinding("OK", "all_endpoints_ready", N(0))>>, 0, <<>>)

PodRow(p) ==
    Line("row", podPhaseReason(p), "pod",
         [name |-> p.Name, n |-> podContainerSummary(p).ready,
          m |-> podContainerSummary(p).restarts])

\* 3. Backing pods: findings is incremented once per unhealthy pod, and one
\* finding is written for all of them
dsPods(pods) ==
    LET unhealthyPods == Cardinality(SelectIdx(pods.items, LAMBDA p : ~isPodHealthy(p)))
    IN  IF ~pods.err /\ Len(pods.items) > 0
        THEN Acc(<<Section("Backing Pods")>> \o [i \in 1..Len(pods.items) |-> PodRow(pods.items[i])]
                 \o (IF unhealthyPods > 0
                     THEN <<FormatFinding("CRITICAL", "pods_unhealthy",
                                          NM(unhealthyPods, Len(pods.items)))>>
                     ELSE <<>>),
                 unhealthyPods, <<>>)
        ELSE Acc(<<>>, 0, <<>>)

\* 4. Resource usage: one line per container that has metrics
dsUsage(metrics, podItems) ==
    LET ofPod(p) ==
            LET k == LastIndexNamed(metrics.items, p.Name)
            IN  IF k = 0 THEN <<>>
                ELSE FlatSeq([j \in 1..Len(p.Containers) |->
                        LET c == LastIndexNamed(metrics.items[k].Containers, p.Containers[j].Name)
                        IN  IF c = 0 THEN <<>>
                            ELSE <<Text("usage", [name |-> p.Name,
                                                  n |-> metrics.items[k].Containers[c].cpu,
                                                  m |-> p.Containers[j].cpuLimit])>>])
    IN  IF ~metrics.err /\ Len(podItems) > 0
        THEN <<Section("Resource Usage")>> \o FlatSeq([i \in 1..Len(podItems) |-> ofPod(podItems[i])])
        ELSE <<>>

\* The (ingress, rule, path) triples whose backend is the service, in order
BackendRefs(ingresses, serviceName) ==
    FlatSeq([i \in 1..Len(ingresses) |->
        FlatSeq([r \in 1..Len(ingresses[i].rules) |->
            IF ~ingresses[i].rules[r].http THEN <<>>
            ELSE LET paths == ingresses[i].rules[r].paths
                 IN  FlatSeq([k \in 1..Len(paths) |->
                        IF paths[k].svc # <<>> /\ paths[k].svc = serviceName
                        THEN <<[ing |-> ingresses[i].name, host |-> ingresses[i].rules[r].host,
                                path |-> paths[k].path]>>
                        ELSE <<>>])])])

\* 5. Ingress exposure
dsIngresses(ingresses, serviceName) ==
    LET refs == BackendRefs(ingresses.items, serviceName)
    IN  IF ingresses.err THEN <<>>
        ELSE <<Section("Ingress Exposure")>>
             \o [i \in 1..Len(refs) |-> Text("ingress", Named(refs[i].ing))]
             \o (IF Len(refs) = 0 THEN <<Text("not_exposed", N(0))>> ELSE <<>>)

dsPoliciesAfterIngressError(netPols, svc) == <<>>

\* 6. Network policies
dsPolicies(netPols, svc) ==
    LET matching == SelectSeq(netPols.items,
                              LAMBDA np : matchesSvcSelector(np.selector, svc.Selector))
    IN  IF netPols.err THEN <<>>
        ELSE <<Section("Network Policies")>>
             \o [i \in 1..Len(matching) |-> Text("policy_applies", Named(matching[i].name))]
             \o (IF Len(matching) = 0 /\ Len(netPols.items) > 0
                 THEN <<Text("no_policy_targets_service", N(0))>>
                 ELSE IF Len(netPols.items) = 0 THEN <<Text("no_policies_in_namespace", N(0))>>
                 ELSE <<>>)

\* 7. Recent events: the error of GetEventsForObject is dropped
dsEvents(events) ==
    IF Len(events.items) > 0
    THEN <<Section("Recent Events")>>
         \o (IF Len(events.items) > 10 THEN <<>>
             ELSE [i \in 1..Len(events.items) |->
                      Line("event", IF events.items[i] = "Warning" THEN "WARNING" ELSE "",
                           "event", N(0))])
    ELSE <<>>

\* 9. Mermaid diagram
dsDiagram(svc, podItems) ==
    LET svcID == SafeID(StrSvc \o svc.Name)
        f1 == AddRawStyle(AddNode(NewFlowchart, svcID, svc.Name), svcID,
                          "fill:#cce5ff,stroke:#4a90d9,stroke-width:2px")
    IN  FoldSeq(LAMBDA f, p :
                    LET podID == SafeID(PodPrefix \o p.Name)
                    IN  AddStyle(AddEdge(AddNode(f, podID, p.Name), svcID, podID, <<>>),
                                 podID, IF isPodHealthy(p) THEN "healthy" ELSE "critical"),
                f1, podItems)

\* diagnose_service (Go) after the service was fetched
diagnoseService(in) ==
    LET svc == in.svc.obj
        pods == GetPodsForService(svc, in.pods)
        podItems == IF pods.err THEN <<>> ELSE pods.items
        ep == dsEndpoints(in.endpoints)
        bp == dsPods(pods)
        n == ep.n + bp.n
    IN  [lines |-> <<Section("Service Configuration"), Text("config", Named(svc.Name)),
                     Section("Endpoint Health")>> \o ep.lines
                   \o bp.lines
                   \o dsUsage(in.metrics, podItems)
                   \o dsIngresses(in.ingresses, svc.Name)
                   \o dsPolicies(in.policies, svc)
                   \o dsEvents(in.events)
                   \o <<Section("Assessment"),
                        IF n = 0 THEN Text("healthy", N(0)) ELSE Text("findings_identified", N(n))>>,
         n |-> n,
         fc |-> dsDiagram(svc, podItems),
         calls |-> <<"GetService", "GetEndpoints">>
                   \o (IF svc.Selector = {} THEN <<>> ELSE <<"ListPods">>)
                   \o <<"GetPodMetrics", "ListIngresses", "ListNetworkPolicies",
                        "GetEventsForObject">>]

SvcDiagEngines == {"go_diag_svc", "ts_diag_svc"}

InitSvc ==
    /\ engine \in SvcDiagEngines
    /\ input \in DiagInputs
    /\ pc = "call"
    /\ loc = [err |-> FALSE]
    /\ lines = <<>>
    /\ findings = IF engine = "ts_diag_svc" THEN <<>> ELSE 0
    /\ actions = <<>>
    /\ fc = NewFlowchart
    /\ calls = <<>>

DiagnoseService ==
    /\ engine = "go_diag_svc" /\ pc = "call"
    /\ LET rep == diagnoseService(input)
       IN  IF input.svc.err
           THEN /\ loc' = [err |-> TRUE]
                /\ calls' = <<"GetService">>
                /\ UNCHANGED <<lines, findings, fc>>
           ELSE /\ lines' = rep.lines
                /\ findings' = rep.n
                /\ fc' = rep.fc
                /\ calls' = rep.calls
                /\ UNCHANGED loc
    /\ pc' = "done"
    /\ UNCHANGED <<engine, input, actions>>

\* A section of the TS report: its lines, the findings it pushes, its accessor calls
TsSec(ls, fs, cs) == [lines |-> ls, findings |-> fs, calls |-> cs]

\* [2] ENDPOINT HEALTH; the counts stay 0 when the fetch fails
tsReadyCount(ep) ==
    IF ep.err THEN 0
    ELSE SumSeq([i \in 1..Len(ep.obj.subsets) |-> Len(ep.obj.subsets[i].addresses)])

tsNotReadyCount(ep) ==
    IF ep.err THEN 0
    ELSE SumSeq([i \in 1..Len(ep.obj.subsets) |-> Len(ep.obj.subsets[i].notReadyAddresses)])

tdsEndpoints(ep) ==
    LET readyCount == tsReadyCount(ep)
        notReadyCount == tsNotReadyCount(ep)
    IN  IF ep.err THEN TsSec(<<Text("could_not_fetch_endpoints", N(0))>>, <<>>, <<"GetEndpoints">>)
        ELSE TsSec(<<Text("endpoints", NM(readyCount, notReadyCount))>>,
                   IF readyCount = 0 /\ notReadyCount = 0
                   THEN <<FormatFinding("CRITICAL", "no_endpoints", N(0))>>
                   ELSE IF readyCount = 0
                   THEN <<FormatFinding("CRITICAL", "all_endpoints_not_ready", N(notReadyCount))>>
                   ELSE IF notReadyCount > 0
                   THEN <<FormatFinding("WARNING", "endpoints_not_ready", N(notReadyCount))>>
                   ELSE <<>>,
                   <<"GetEndpoints">>)

\* [3] BACKING POD STATUS
tdsPods(selector, pods) ==
    LET unhealthy == Cardinality(SelectIdx(pods.items, LAMBDA p : ~tsIsPodHealthy(p)))
        highRestarts == Cardinality(SelectIdx(pods.items,
                                              LAMBDA p : podContainerSummary(p).restarts > 5))
    IN  IF selector = {} THEN TsSec(<<Text("na_no_selector", N(0))>>, <<>>, <<>>)
        ELSE IF pods.err THEN TsSec(<<Text("could_not_fetch_pods", N(0))>>, <<>>, <<"ListPods">>)
        ELSE IF Len(pods.items) = 0
        THEN TsSec(<<Text("no_pods_match", N(0))>>,
                   <<FormatFinding("CRITICAL", "no_pods_match", N(0))>>, <<"ListPods">>)
        ELSE TsSec([i \in 1..Len(pods.items) |-> PodRow(pods.items[i])],
                   (IF unhealthy > 0
                    THEN <<FormatFinding("WARNING", "pods_unhealthy",
                                         NM(unhealthy, Len(pods.items)))>>
                    ELSE <<>>)
                   \o (IF highRestarts > 0
                       THEN <<FormatFinding("WARNING", "pods_high_restarts", N(highRestarts))>>
                       ELSE <<>>),
                   <<"ListPods">>)

\* [4] RESOURCE USAGE of one pod: usage and limits summed over the containers
tdsUsagePod(pod, pm) ==
    LET cpuUsage == SumSeq([i \in 1..Len(pm.Containers) |-> pm.Containers[i].cpu])
        memUsage == SumSeq([i \in 1..Len(pm.Containers) |-> pm.Containers[i].mem])
        cpuLimit == SumSeq([i \in 1..Len(pod.Containers) |-> pod.Containers[i].cpuLimit])
        memLimit == SumSeq([i \in 1..Len(pod.Containers) |-> pod.Containers[i].memLimit])
    IN  TsSec(<<Text("usage", [name |-> pod.Name, n |-> cpuUsage, m |-> cpuLimit])>>,
              (IF memLimit > 0 /\ PctGT(memUsage, memLimit, 90)
               THEN <<FormatFinding("CRITICAL", "memory_of_limit", Named(pod.Name))>> ELSE <<>>)
              \o (IF cpuLimit > 0 /\ PctGT(cpuUsage, cpuLimit, 90)
                  THEN <<FormatFinding("WARNING", "cpu_of_limit", Named(pod.Name))>> ELSE <<>>),
              <<>>)

tdsUsage(backingPods, metrics) ==
    LET per == [i \in 1..Len(backingPods) |->
                   LET k == LastIndexNamed(metrics.items, backingPods[i].Name)
                   IN  IF k = 0 THEN TsSec(<<>>, <<>>, <<>>)
                       ELSE tdsUsagePod(backingPods[i], metrics.items[k])]
    IN  IF Len(backingPods) = 0 THEN TsSec(<<Text("no_backing_pods", N(0))>>, <<>>, <<>>)
        ELSE IF metrics.err
        THEN TsSec(<<Text("metrics_not_available", N(0))>>, <<>>, <<"GetPodMetrics">>)
        ELSE TsSec(FlatSeq([i \in 1..Len(per) |-> per[i].lines]),
                   FlatSeq([i \in 1..Len(per) |-> per[i].findings]), <<"GetPodMetrics">>)

\* [5] INGRESS EXPOSURE
tdsIngresses(ingresses, serviceName) ==
    LET refs == BackendRefs(ingresses.items, serviceName)
    IN  IF ingresses.err
        THEN TsSec(<<Text("could_not_fetch_ingresses", N(0))>>, <<>>, <<"ListIngresses">>)
        ELSE IF Len(refs) = 0
        THEN TsSec(<<Text("no_ingresses_route", N(0))>>,
                   <<FormatFinding("INFO", "not_exposed", N(0))>>, <<"ListIngresses">>)
        ELSE TsSec([i \in 1..Len(refs) |-> Text("ingress", Named(refs[i].ing))], <<>>,
                   <<"ListIngresses">>)

\* [6] NETWORK POLICIES
tdsPolicies(policies, selector) ==
    LET matching == SelectSeq(policies.items,
                              LAMBDA np : \A i \in 1..Len(np.selector) : np.selector[i] \in selector)
        ofPolicy(np) ==
            LET types == IF Len(np.policyTypes) = 0 THEN <<"Ingress">> ELSE np.policyTypes
            IN  (IF "Ingress" \in Range(types) /\ (~np.ingress.present \/ Len(np.ingress.rules) = 0)
                 THEN <<FormatFinding("WARNING", "denies_all_ingress", Named(np.name))>> ELSE <<>>)
                \o (IF "Egress" \in Range(types) /\ (~np.egress.present \/ Len(np.egress.rules) = 0)
                    THEN <<FormatFinding("WARNING", "denies_all_egress", Named(np.name))>>
                    ELSE <<>>)
    IN  IF policies.err
        THEN TsSec(<<Text("could_not_fetch_network_policies", N(0))>>, <<>>,
                   <<"ListNetworkPolicies">>)
        ELSE IF Len(matching) = 0
        THEN TsSec(<<Text("no_policy_affects_service", N(0)),
                     Line("note", "INFO", "all_traffic_allowed", N(0))>>, <<>>,
                   <<"ListNetworkPolicies">>)
        ELSE TsSec([i \in 1..Len(matching) |-> Text("policy", Named(matching[i].name))],
                   FlatSeq([i \in 1..Len(matching) |-> ofPolicy(matching[i])]),
                   <<"ListNetworkPolicies">>)

\* [7] RECENT EVENTS
tdsEvents(events) ==
    IF events.err THEN TsSec(<<Text("could_not_fetch_events", N(0))>>, <<>>, <<"GetEventsForObject">>)
    ELSE IF Len(events.items) = 0
    THEN TsSec(<<Text("no_recent_events", N(0))>>, <<>>, <<"GetEventsForObject">>)
    ELSE TsSec([i \in 1..Min(Len(events.items), 10) |->
                   Line("event", IF events.items[i] = "Warning" THEN "WARNING" ELSE "INFO",
                        "event", N(0))],
               <<>>, <<"GetEventsForObject">>)

\* SERVICE TOPOLOGY; the ingresses are listed a second time
tdsTopology(serviceName, ingresses, backingPods, ep) ==
    LET svcId == mermaidSafeId(serviceName)
        refs == IF ingresses.err THEN <<>> ELSE BackendRefs(ingresses.items, serviceName)
        f1 == IF Len(refs) = 0 THEN AddEdge(NewFlowchart, IdClients, svcId, <<>>)
              ELSE FoldSeq(LAMBDA f, k :
                              LET iId == mermaidSafeId(StrIng \o refs[k].ing \o <<"_">>
                                                       \o Itoa(k - 1))
                              IN  AddRawStyle(AddEdge(f, iId, svcId, <<>>), iId, Green),
                           NewFlowchart, [k \in 1..Len(refs) |-> k])
        f2 == IF Len(backingPods) > 0 THEN tsPodNodes(f1, svcId, backingPods)
              ELSE AddRawStyle(AddEdge(f1, svcId, IdNoPods, <<>>), IdNoPods, Red)
    IN  AddRawStyle(f2, svcId,
                    IF tsReadyCount(ep) = 0 THEN Red
                    ELSE IF tsNotReadyCount(ep) > 0 THEN Yellow ELSE Green)

\* DiagnoseServiceTool.invoke (TS) after the service was fetched
tsDiagnoseService(in) ==
    LET svc == in.svc.obj
        e == tdsEndpoints(in.endpoints)
        p == tdsPods(svc.Selector, in.pods)
        backingPods == IF svc.Selector = {} \/ in.pods.err THEN <<>> ELSE in.pods.items
        u == tdsUsage(backingPods, in.metrics)
        i == tdsIngresses(in.ingresses, svc.Name)
        np == tdsPolicies(in.policies, svc.Selector)
        ev == tdsEvents(in.events)
        fs == (IF svc.Selector = {} THEN <<FormatFinding("WARNING", "no_selector", N(0))>>
               ELSE <<>>)
              \o e.findings \o p.findings \o u.findings \o i.findings \o np.findings
              \o ev.findings
    IN  [lines |-> <<Section("Service Configuration"), Text("config", Named(svc.Name)),
                     Section("Endpoint Health")>> \o e.lines
                   \o <<Section("Backing Pods")>> \o p.lines
                   \o <<Section("Resource Usage")>> \o u.lines
                   \o <<Section("Ingress Exposure")>> \o i.lines
                   \o <<Section("Network Policies")>> \o np.lines
                   \o <<Section("Recent Events")>> \o ev.lines
                   \o <<Section("Assessment")>>
                   \o (IF Len(fs) = 0 THEN <<Text("healthy", N(0))>> ELSE fs),
         findings |-> fs,
         fc |-> tdsTopology(svc.Name, in.ingresses, backingPods, in.endpoints),
         calls |-> <<"GetService">> \o e.calls \o p.calls \o u.calls \o i.calls \o np.calls
                   \o ev.calls \o <<"ListIngresses">>]

TsDiagnoseService ==
    /\ engine = "ts_diag_svc" /\ pc = "call"
    /\ LET rep == tsDiagnoseService(input)
       IN  IF input.svc.err
           THEN /\ loc' = [err |-> TRUE]
                /\ lines' = <<Section("Service Configuration")>>
                /\ calls' = <<"GetService">>
                /\ UNCHANGED <<findings, fc>>
           ELSE /\ lines' = rep.lines
                /\ findings' = rep.findings
                /\ fc' = rep.fc
                /\ calls' = rep.calls
                /\ UNCHANGED loc
    /\ pc' = "done"
    /\ UNCHANGED <<engine, input, actions>>

NextSvc == DiagnoseService \/ TsDiagnoseService

SpecSvc == InitSvc /\ [][NextSvc]_vars

SvcDiagDone == engine \in SvcDiagEngines /\ pc = "done"

ServiceFetched == SvcDiagDone /\ ~input.svc.err

\* C12: for a service with an empty selector, for which getPodsForService
\* returns an empty pod list and no error, service diagnosis marks the
\* pod-layer analysis as "N/A - no selector"; it neither reports 0 unhealthy
\* pods nor omits the pod layer silently.
C12_EmptySelectorMarkedNA ==
    (ServiceFetched /\ input.svc.obj.Selector = {}) =>
        /\ GetPodsForService(input.svc.obj, input.pods) = Listing(FALSE, <<>>)
        /\ HasLine(Text("na_no_selector", N(0)))

\* The TS tool alone writes the N/A line
C12_TsEmptySelectorMarkedNA ==
    (ServiceFetched /\ engine = "ts_diag_svc" /\ input.svc.obj.Selector = {}) =>
        HasLine(Text("na_no_selector", N(0)))

\* Every section of the report was attempted: its accessor call was made
AllSectionsAttempted ==
    /\ {"GetEndpoints", "ListIngresses", "ListNetworkPolicies", "GetEventsForObject"}
           \subseteq Range(calls)
    /\ HasLine(Section("Service Configuration"))
    /\ HasLine(Section("Endpoint Health"))
    /\ HasLine(Section("Assessment"))

IssueCount == IF engine = "ts_diag_svc" THEN Len(findings) ELSE findings

\* For each section whose fetch fails, the inline note the report should carry
FailedSectionNotes ==
    (IF input.endpoints.err THEN {"could_not_fetch_endpoints"} ELSE {})
    \cup (IF input.svc.obj.Selector # {} /\ input.pods.err
          THEN {"could_not_fetch_pods"} ELSE {})
    \cup (IF input.ingresses.err THEN {"could_not_fetch_ingresses"} ELSE {})
    \cup (IF input.policies.err THEN {"could_not_fetch_network_policies"} ELSE {})
    \cup (IF input.events.err THEN {"could_not_fetch_events"} ELSE {})

\* The lines that are findings about a failed fetch
FetchErrorFindings ==
    SelectSeq(lines, LAMBDA l : IsFinding(l) /\ l.what = "could_not_get_endpoints")

\* C19: a transport or API error in a non-essential section of a report is
\* downgraded to an inline "could not fetch" note: it does not increment the
\* issue count and it does not abort the rest of the report.
C19_FetchErrorIsInlineNote ==
    ServiceFetched =>
        /\ \A what \in FailedSectionNotes : HasLine(Text(what, N(0)))
        /\ FetchErrorFindings = <<>>
        /\ input.endpoints.err =>
               IssueCount = IF engine = "ts_diag_svc"
                            THEN Len(tsDiagnoseService(
                                         [input EXCEPT !.endpoints = Got(FALSE, SubsetsReady)]).findings)
                            ELSE diagnoseService(
                                     [input EXCEPT !.endpoints = Got(FALSE, SubsetsReady)]).n
        /\ HasLine(Section("Assessment"))

\* The TS tool alone: a note per failed fetch, and the report runs to its end
C19_TsFetchErrorIsInlineNote ==
    (ServiceFetched /\ engine = "ts_diag_svc") =>
        /\ \A what \in FailedSectionNotes : HasLine(Text(what, N(0)))
        /\ FetchErrorFindings = <<>>
        /\ HasLine(Section("Assessment"))

\* The finding lines of the report that state an issue
IssueLines == SelectSeq(lines, LAMBDA l : IsFinding(l) /\ l.sev # "OK")

\* C20: the report renders one severity-prefixed line per finding and keeps a
\* running count of findings, and the final verdict reports exactly that count
\* or "healthy" when it is zero: the count in the verdict equals the number of
\* finding lines rendered, and the verdict is "healthy" only if no finding line
\* was rendered.
C20_VerdictCountsFindingLines ==
    ServiceFetched =>
        /\ IssueCount = Len(IssueLines)
        /\ HasLine(Text("healthy", N(0))) <=> (Len(IssueLines) = 0)
        /\ engine = "go_diag_svc" /\ Len(IssueLines) > 0 =>
               HasLine(Text("findings_identified", N(Len(IssueLines))))

-----------------------------------------------------------------------------
(* podPhaseReason *)

WaitingReasons(statuses) ==
    SelectSeq([k \in 1..Len(statuses) |-> statuses[k].Waiting], LAMBDA r : r \notin {"nil", ""})

TerminatedReasons(statuses) ==
    SelectSeq([k \in 1..Len(statuses) |-> statuses[k].Terminated], LAMBDA r : r \notin {"nil", ""})

\* The status string by the stated precedence
PreferredReason(p) ==
    IF WaitingReasons(p.ContainerStatuses) # <<>> THEN WaitingReasons(p.ContainerStatuses)[1]
    ELSE IF TerminatedReasons(p.ContainerStatuses) # <<>>
    THEN TerminatedReasons(p.ContainerStatuses)[1]
    ELSE IF firstStateReason(p.InitContainerStatuses) # ""
    THEN InitPrefixed(firstStateReason(p.InitContainerStatuses))
    ELSE IF p.Reason # "" THEN p.Reason
    ELSE p.Phase

\* C14: podPhaseReason returns the most specific available status string,
\* preferring in this order: a waiting-container reason, then a
\* terminated-container reason, then an init container's waiting or terminated
\* reason (prefixed), then the pod-level status reason, and only otherwise the
\* bare phase.
C14_PodPhaseReasonPrecedence ==
    (engine = "podPhaseReason" /\ pc = "done") => loc.result = PreferredReason(input)

\* The precedence holds for pods with at most one container status
C14_SingleContainerPrecedence ==
    (engine = "podPhaseReason" /\ pc = "done" /\ Len(input.ContainerStatuses) <= 1) =>
        loc.result = PreferredReason(input)

-----------------------------------------------------------------------------
(* Thresholds *)

\* The class of a usage by the stated thresholds: above 90% of a limit is
\* critical, above 70% a warning
ThresholdClass(a) ==
    IF PctGT(a.cpuUsage, a.cpuLimit, 90) \/ PctGT(a.memUsage, a.memLimit, 90) THEN "CRITICAL"
    ELSE IF PctGT(a.cpuUsage, a.cpuLimit, 70) \/ PctGT(a.memUsage, a.memLimit, 70) THEN "WARNING"
    ELSE "OK"

\* The analyses of pods that have metrics and both limits
Classified ==
    SelectSeq(loc.analyses, LAMBDA a : a.hasMetrics /\ a.cpuLimit > 0 /\ a.memLimit > 0)

ClassifiedByThresholds ==
    \A i \in 1..Len(Classified) :
        LET a == Classified[i]
        IN  /\ ThresholdClass(a) \in {"CRITICAL", "WARNING"} => a.category = ThresholdClass(a)
            /\ a.category \in {"CRITICAL", "WARNING"} => a.category = ThresholdClass(a)

\* C15: the resource-percentage thresholds are the same fixed constants in
\* every engine that touches resource health (critical is more than 90% of the
\* limit, warning is more than 70% of the limit), so any two engines classify
\* the same usage value the same way.
C15_SameThresholdsInEveryEngine ==
    (engine \in {"go_usage", "ts_usage"} /\ pc = "done") => ClassifiedByThresholds

\* analyze_resource_usage (Go) alone applies the thresholds 90 and 70
C15_GoUsageThresholds ==
    (engine = "go_usage" /\ pc = "done") => ClassifiedByThresholds

-----------------------------------------------------------------------------
(* Resolver contract *)

ResolverDone ==
    engine \in {"FindIngressForHostPath", "findIngressForHostPath"} /\ pc = "done"

\* A list call the resolver made has failed
FetchFailed ==
    \/ input.first.err
    \/ engine = "FindIngressForHostPath" /\ input.namespace = "" /\ input.second.err

\* C16: each topology resolver returns the next layer or a not-found/empty
\* result when the resource it looks for is legitimately absent, and raises an
\* error only for a transport or API failure, so a caller can always tell
\* absence apart from a failed fetch.
C16_ErrorOnlyForFailedFetch ==
    ResolverDone => (loc.result.raised <=> FetchFailed)

\* The TS resolver alone: null for absence, an exception for a failed list
C16_TsErrorOnlyForFailedFetch ==
    (ResolverDone /\ engine = "findIngressForHostPath") => (loc.result.raised <=> FetchFailed)

-----------------------------------------------------------------------------
(* Cluster health overview: cluster_health_overview and diagnose_cluster (Go),
   ClusterHealthOverviewTool (TS) *)

NodeA == <<"n", "1">>
NodeB == <<"n", "2">>
NsA   == <<"a">>
NsB   == <<"b">>

\* A node: Ready is the status of its Ready condition ("" when it has none),
\* Pressure the pressure conditions whose status is True
OvNode(name, ready, pressure, cpu, mem) ==
    [Name |-> name, Ready |-> ready, Pressure |-> pressure, cpu |-> cpu, mem |-> mem]

NodePool == <<OvNode(NodeA, "True", <<>>, 100, 100),
              OvNode(NodeB, "False", <<"MemoryPressure">>, 100, 100)>>

NodeListings ==
    {Listing(TRUE, <<>>)} \cup {Listing(FALSE, l) : l \in SubLists(NodePool, Len(NodePool))}

NodeMetricsListings ==
    {Listing(TRUE, <<>>), Listing(FALSE, <<>>),
     Listing(FALSE, <<[Name |-> NodeA, cpu |-> 95, mem |-> 50]>>)}

\* A pod of the all-namespaces list
NsPod(ns, p) == [Namespace |-> ns, pod |-> p]

OvPodPool == <<NsPod(NsA, PodPool[1]), NsPod(NsB, PodPool[2]), NsPod(NsA, PodPool[3])>>

OvPodListings ==
    {Listing(TRUE, <<>>)} \cup {Listing(FALSE, l) : l \in SubLists(OvPodPool, MaxPods)}

\* A service of the all-namespaces list with the result of reading its endpoints
OvSvc(name, type, selector, clusterIP, ep) ==
    [Namespace |-> NsA, Name |-> name, Type |-> type, Selector |-> selector,
     ClusterIP |-> clusterIP, ep |-> ep]

OvServiceListings ==
    {Listing(TRUE, <<>>), Listing(FALSE, <<>>),
     Listing(FALSE, <<OvSvc(SvcApi, "ClusterIP", {LabelApi}, "10.1.0.1",
                            Got(FALSE, [subsets |-> <<>>]))>>),
     Listing(FALSE, <<OvSvc(SvcWeb, "ClusterIP", {LabelWeb}, "10.1.0.2",
                            Got(FALSE, [subsets |-> <<SubsetPool[3]>>])),
                      OvSvc(SvcApi, "ExternalName", {}, "",
                            Got(FALSE, [subsets |-> <<>>]))>>),
     Listing(FALSE, <<OvSvc(SvcApi, "ClusterIP", {LabelApi}, "10.1.0.1",
                            Got(TRUE, [subsets |-> <<>>])),
                      OvSvc(SvcWeb, "ClusterIP", {LabelWeb}, "10.1.0.2",
                            Got(FALSE, [subsets |-> <<SubsetPool[2]>>]))>>)}

OvEventListings ==
    {Listing(TRUE, <<>>), Listing(FALSE, <<>>),
     Listing(FALSE, <<Event("Warning", 45, 10)>>),
     Listing(FALSE, <<Event("Normal", 80, 10), Event("Warning", 0, 75)>>)}

KubeSystemListings ==
    {Listing(TRUE, <<>>), Listing(FALSE, <<PodPool[1]>>),
     Listing(FALSE, <<PodPool[1], PodPool[2]>>)}

OvIngressListings == {Listing(TRUE, <<>>), Listing(FALSE, <<IngressPool[1]>>)}

OverviewInputs ==
    [nodes       : NodeListings,
     nodeMetrics : NodeMetricsListings,
     pods        : OvPodListings,
     services    : OvServiceListings,
     events      : OvEventListings,
     ksPods      : KubeSystemListings,
     ingresses   : OvIngressListings]

\* nodeStatus (Go and TS)
nodeStatus(n) ==
    IF n.Ready = "" THEN "Unknown" ELSE IF n.Ready = "True" THEN "Ready" ELSE "NotReady"

\* 1. Node health of cluster_health_overview
choNodes(nodes) ==
    LET perNode(n) ==
            (IF nodeStatus(n) # "Ready"
             THEN <<FormatFinding("CRITICAL", nodeStatus(n), Named(n.Name))>>
             ELSE <<>>)
            \o [k \in 1..Len(n.Pressure) |->
                  FormatFinding("WARNING", n.Pressure[k], Named(n.Name))]
        found == FlatSeq([i \in 1..Len(nodes) |-> perNode(nodes[i])])
        readyNodes == Len(SelectSeq(nodes, LAMBDA n : nodeStatus(n) = "Ready"))
    IN  Chk(<<Section("Nodes")>> \o found \o <<Text("nodes_ready", NM(readyNodes, Len(nodes)))>>,
            Len(found))

\* 2. Resource utilization; nothing at all without metrics
choUtilization(nodes, metrics) ==
    IF metrics.err \/ Len(metrics.items) = 0 THEN Chk(<<>>, 0)
    ELSE LET capCPU   == SumSeq([i \in 1..Len(nodes) |-> nodes[i].cpu])
             capMem   == SumSeq([i \in 1..Len(nodes) |-> nodes[i].mem])
             totalCPU == SumSeq([i \in 1..Len(metrics.items) |-> metrics.items[i].cpu])
             totalMem == SumSeq([i \in 1..Len(metrics.items) |-> metrics.items[i].mem])
             cpuHigh  == capCPU > 0 /\ PctGT(totalCPU, capCPU, 85)
             memHigh  == capMem > 0 /\ PctGT(totalMem, capMem, 85)
         IN  Chk(<<Section("Resource Utilization"),
                   Text("cpu", NM(totalCPU, capCPU)), Text("memory", NM(totalMem, capMem))>>
                 \o (IF cpuHigh THEN <<FormatFinding("WARNING", "cpu_above_85", N(0))>> ELSE <<>>)
                 \o (IF memHigh THEN <<FormatFinding("WARNING", "memory_above_85", N(0))>>
                     ELSE <<>>),
                 (IF cpuHigh THEN 1 ELSE 0) + (IF memHigh THEN 1 ELSE 0))

\* The nsPods map of section 3, one entry per namespace that has a pod
nsPodsEntry(pods, ns) ==
    LET mine == SelectSeq(pods, LAMBDA q : q.Namespace = ns)
    IN  [ns |-> ns, total |-> Len(mine),
         unhealthy |-> Len(SelectSeq(mine, LAMBDA q : ~isPodHealthy(q.pod))),
         highRestart |-> Len(SelectSeq(mine, LAMBDA q :
                                podContainerSummary(q.pod).restarts > HighRestartThreshold))]

nsPodsOf(pods) == {nsPodsEntry(pods, ns) : ns \in {q.Namespace : q \in Range(pods)}}

\* a > b on the strings of two decimal numbers, as Go compares strings
RECURSIVE StringGreater(_, _)
StringGreater(a, b) ==
    LET val(c) == CHOOSE d \in 0..9 : DigitOf(d) = c
    IN  IF a = <<>> THEN FALSE
        ELSE IF b = <<>> THEN TRUE
        ELSE IF Head(a) # Head(b) THEN val(Head(a)) > val(Head(b))
        ELSE StringGreater(Tail(a), Tail(b))

\* The rows of the table, in every order sort.Slice can leave them in: the
\* rows are collected in map-iteration order and sorted by the UNHEALTHY
\* column, compared as strings
TallyOrders(entries) ==
    LET rows == {e \in entries : e.unhealthy > 0 \/ e.highRestart > 0}
    IN  {p \in Arrangements(rows, Cardinality(rows)) :
            /\ Len(p) = Cardinality(rows)
            /\ \A i, j \in 1..Len(p) :
                  i < j => ~StringGreater(Itoa(p[j].unhealthy), Itoa(p[i].unhealthy))}

\* 3. Pod health by namespace, given the order of the rows
choPods(listing, rows) ==
    IF listing.err THEN Chk(<<>>, 0)
    ELSE LET entries == nsPodsOf(listing.items)
             totalUnhealthy == Len(SelectSeq(listing.items, LAMBDA q : ~isPodHealthy(q.pod)))
         IN  IF Len(rows) > 0
             THEN Chk(<<Section("Pod Health by Namespace")>>
                      \o [i \in 1..Len(rows) |->
                            Text("tally_row", [name |-> rows[i].ns, n |-> rows[i].unhealthy,
                                               m |-> rows[i].total])]
                      \o <<FormatFinding("WARNING", "unhealthy_pods_cluster_wide",
                                         N(totalUnhealthy))>>, 1)
             ELSE Chk(<<Section("Pod Health by Namespace"),
                        Text("all_pods_healthy",
                             NM(Len(listing.items), Cardinality(entries)))>>, 0)

\* 4. Service endpoint health
choServices(listing) ==
    IF listing.err THEN Chk(<<>>, 0)
    ELSE LET perSvc(svc) ==
                 IF svc.Type = "ExternalName" \/ svc.Selector = {} \/ svc.ep.err THEN <<>>
                 ELSE LET epHealth == GetServiceEndpointHealth(svc.ep.obj)
                      IN  IF epHealth.TotalEndpoints = 0
                          THEN <<FormatFinding("CRITICAL", "DEAD", Named(svc.Name))>>
                          ELSE IF epHealth.NotReadyCount > 0
                          THEN <<FormatFinding("WARNING", "DEGRADED",
                                   [name |-> svc.Name, n |-> epHealth.NotReadyCount,
                                    m |-> epHealth.TotalEndpoints])>>
                          ELSE <<>>
             found == FlatSeq([i \in 1..Len(listing.items) |-> perSvc(listing.items[i])])
         IN  Chk(<<Section("Service Endpoint Health")>> \o found
                 \o (IF found = <<>>
                     THEN <<Text("all_services_healthy", N(Len(listing.items)))>> ELSE <<>>),
                 Len(found))

\* The Warning events of the last hour
recentWarnings(events, now) ==
    Len(SelectSeq(events, LAMBDA e : e.Type = "Warning" /\ eventTime(e) > now - OneHour))

\* 5. Warning events (last hour); the per-reason lines are one line here
choEvents(listing, now) ==
    LET events == ListEvents(listing)
    IN  IF events.err THEN Chk(<<>>, 0)
        ELSE LET warningCount == recentWarnings(events.items, now)
             IN  IF warningCount > 0
                 THEN Chk(<<Section("Recent Warnings"), Text("warning_events", N(warningCount)),
                            Text("reason_counts", N(warningCount))>>, 1)
                 ELSE Chk(<<Section("Recent Warnings"), Text("no_warning_events", N(0))>>, 0)

\* 6. kube-system check
choKubeSystem(listing) ==
    IF listing.err THEN Chk(<<>>, 0)
    ELSE LET ksUnhealthy == Len(SelectSeq(listing.items, LAMBDA p : ~isPodHealthy(p)))
         IN  IF ksUnhealthy > 0
             THEN Chk(<<Section("kube-system Health"),
                        FormatFinding("CRITICAL", "kube_system_unhealthy",
                                      NM(ksUnhealthy, Len(listing.items)))>>, 1)
             ELSE Chk(<<Section("kube-system Health"),
                        Text("all_pods_healthy", N(Len(listing.items)))>>, 0)

StrNode == <<"n", "o", "d", "e", "_">>
StrIngN == <<"i", "n", "g", "_">>

\* 8. Mermaid cluster topology: the nodes, then at most 5 ingresses
choTopology(nodes, ingresses) ==
    LET withNodes == FoldSeq(LAMBDA f, i : AddNode(f, SafeID(StrNode \o Itoa(i - 1)),
                                                   nodes[i].Name),
                             NewFlowchart, [i \in 1..Len(nodes) |-> i])
    IN  IF ingresses.err \/ Len(ingresses.items) = 0 THEN withNodes
        ELSE FoldSeq(LAMBDA f, i :
                        AddEdge(AddNode(f, SafeID(StrIngN \o Itoa(i - 1)),
                                        ingresses.items[i].name),
                                IdInternet, SafeID(StrIngN \o Itoa(i - 1)), <<>>),
                     AddNode(withNodes, IdInternet, <<"Internet">>),
                     [i \in 1..Min(Len(ingresses.items), 5) |-> i])

\* The report of cluster_health_overview after ListNodes has succeeded
clusterHealthOverview(in, now, rows) ==
    LET nodes == in.nodes.items
        all == FoldSeq(LAMBDA c, s : Chk(c.lines \o s.lines, c.n + s.n), Chk(<<>>, 0),
                       <<choNodes(nodes), choUtilization(nodes, in.nodeMetrics),
                         choPods(in.pods, rows), choServices(in.services),
                         choEvents(in.events, now), choKubeSystem(in.ksPods)>>)
    IN  [lines |-> all.lines
                   \o <<Section("Overall Assessment"),
                        IF all.n = 0 THEN Text("cluster_healthy", N(0))
                        ELSE Text("issues_found", N(all.n))>>,
         n |-> all.n,
         fc |-> choTopology(nodes, in.ingresses),
         calls |-> <<"ListNodes", "GetNodeMetrics", "ListPods", "ListServices">>
                   \o (IF in.services.err THEN <<>>
                       ELSE [i \in 1..Len(SelectSeq(in.services.items, LAMBDA s :
                                            s.Type # "ExternalName" /\ s.Selector # {})) |->
                               "GetServiceEndpointHealth"])
                   \o <<"ListEvents", "ListPods", "ListIngresses">>]

\* The report of diagnose_cluster after ListNodes has succeeded
diagnoseCluster(in, now) ==
    LET nodes == in.nodes.items
        perNode(n) ==
            (IF n.Ready \notin {"", "True"}
             THEN <<FormatFinding("CRITICAL", "NotReady", Named(n.Name))>> ELSE <<>>)
            \o [k \in 1..Len(n.Pressure) |->
                  FormatFinding("WARNING", n.Pressure[k], Named(n.Name))]
        nodeFound == FlatSeq([i \in 1..Len(nodes) |-> perNode(nodes[i])])
        s1 == Chk(<<Section("Node Health")>> \o nodeFound
                  \o (IF nodeFound = <<>> THEN <<Text("all_nodes_healthy", N(Len(nodes)))>>
                      ELSE <<>>),
                  Len(nodeFound))
        unhealthy == Len(SelectSeq(in.pods.items, LAMBDA q : ~isPodHealthy(q.pod)))
        s2 == IF in.pods.err THEN Chk(<<>>, 0)
              ELSE Chk(<<Section("Pod Summary"), Text("total", N(Len(in.pods.items))),
                         Text("phase_counts", N(Len(in.pods.items)))>>
                       \o (IF unhealthy > 0
                           THEN <<FormatFinding("WARNING", "unhealthy_pods_cluster_wide",
                                                N(unhealthy))>>
                           ELSE <<>>),
                       IF unhealthy > 0 THEN 1 ELSE 0)
        events == ListEvents(in.events)
        warningCount == recentWarnings(events.items, now)
        s3 == IF events.err THEN Chk(<<>>, 0)
              ELSE IF warningCount > 0
              THEN Chk(<<Section("Recent Events"),
                         FormatFinding("WARNING", "warning_events_last_hour",
                                       N(warningCount))>>, 1)
              ELSE Chk(<<Section("Recent Events"), Text("no_warning_events", N(0))>>, 0)
        kubeBad == SelectSeq(in.ksPods.items, LAMBDA p : ~isPodHealthy(p))
        s4 == IF in.ksPods.err THEN Chk(<<>>, 0)
              ELSE IF Len(kubeBad) > 0
              THEN Chk(<<Section("kube-system Health"),
                         FormatFinding("CRITICAL", "kube_system_unhealthy", N(Len(kubeBad)))>>
                       \o [i \in 1..Len(kubeBad) |->
                             Text(podPhaseReason(kubeBad[i]), Named(kubeBad[i].Name))], 1)
              ELSE Chk(<<Section("kube-system Health"),
                         Text("all_pods_healthy", N(Len(in.ksPods.items)))>>, 0)
        capCPU == SumSeq([i \in 1..Len(nodes) |-> nodes[i].cpu])
        capMem == SumSeq([i \in 1..Len(nodes) |-> nodes[i].mem])
        m == in.nodeMetrics.items
        s5 == IF in.nodeMetrics.err \/ Len(m) = 0 THEN Chk(<<>>, 0)
              ELSE Chk(<<Section("Resource Utilization")>>
                       \o (IF capCPU > 0
                           THEN <<Text("cpu", NM(SumSeq([i \in 1..Len(m) |-> m[i].cpu]), capCPU))>>
                           ELSE <<>>)
                       \o (IF capMem > 0
                           THEN <<Text("memory",
                                       NM(SumSeq([i \in 1..Len(m) |-> m[i].mem]), capMem))>>
                           ELSE <<>>), 0)
        all == FoldSeq(LAMBDA c, s : Chk(c.lines \o s.lines, c.n + s.n), Chk(<<>>, 0),
                       <<s1, s2, s3, s4, s5>>)
    IN  [lines |-> all.lines
                   \o <<Section("Overall Assessment"),
                        IF all.n = 0 THEN Text("appears_healthy", N(0))
                        ELSE Text("issues_found", N(all.n))>>,
         n |-> all.n,
         calls |-> <<"ListNodes", "ListPods", "ListEvents", "ListPods", "GetNodeMetrics">>]

\* [1] NODE SUMMARY of ClusterHealthOverviewTool; a failed getNodeMetrics
\* leaves the usage columns at N/A
tchoNodes(nodes, metrics) ==
    LET usageOf(n) == IF metrics.err THEN <<>>
                      ELSE SelectSeq(metrics.items, LAMBDA u : u.Name = n.Name)
        perNode(n) ==
            LET us == usageOf(n)
                \* a later entry of the same name overwrites an earlier one
                u  == us[Len(us)]
            IN  (IF us # <<>> /\ n.cpu > 0 /\ PctGT(u.cpu, n.cpu, 90)
                 THEN <<FormatFinding("WARNING", "node_cpu_above_90", Named(n.Name))>>
                 ELSE <<>>)
                \o (IF us # <<>> /\ n.mem > 0 /\ PctGT(u.mem, n.mem, 90)
                    THEN <<FormatFinding("CRITICAL", "node_memory_above_90", Named(n.Name))>>
                    ELSE <<>>)
                \o (IF nodeStatus(n) # "Ready"
                    THEN <<FormatFinding("CRITICAL", nodeStatus(n), Named(n.Name))>>
                    ELSE <<>>)
                \o [k \in 1..Len(n.Pressure) |->
                      FormatFinding("WARNING", n.Pressure[k], Named(n.Name))]
        readyNodes == Len(SelectSeq(nodes, LAMBDA n : nodeStatus(n) = "Ready"))
    IN  TsSec(<<Section("Node Summary")>>
              \o [i \in 1..Len(nodes) |-> Text("node_row", Named(nodes[i].Name))]
              \o <<Text("node_totals", NM(readyNodes, Len(nodes) - readyNodes))>>,
              FlatSeq([i \in 1..Len(nodes) |-> perNode(nodes[i])]),
              <<"listNodes", "getNodeMetrics">>)

\* The per-namespace counters of [2]
tsNsStats(pods, ns) ==
    LET mine == SelectSeq(pods, LAMBDA q : q.Namespace = ns)
        crash(q) == podPhaseReason(q.pod) = "CrashLoopBackOff"
        inPhase(ph) == Len(SelectSeq(mine, LAMBDA q : ~crash(q) /\ q.pod.Phase = ph))
    IN  [ns |-> ns, running |-> inPhase("Running"), pending |-> inPhase("Pending"),
         failed |-> inPhase("Failed"), crashloop |-> Len(SelectSeq(mine, crash)),
         succeeded |-> inPhase("Succeeded"), total |-> Len(mine)]

\* Object.keys(nsPodStats).sort() over the namespaces of the pool
tsSortedNamespaces(pods) ==
    SelectSeq(<<NsA, NsB>>, LAMBDA ns : \E q \in Range(pods) : q.Namespace = ns)

\* [2] POD HEALTH BY NAMESPACE, after listPods has succeeded
tchoPods(pods) ==
    LET sorted == tsSortedNamespaces(pods)
        perNs(ns) ==
            LET s == tsNsStats(pods, ns)
            IN  (IF s.crashloop > 0
                 THEN <<FormatFinding("CRITICAL", "crashloop_pods", NamedN(ns, s.crashloop))>>
                 ELSE <<>>)
                \o (IF s.failed > 0
                    THEN <<FormatFinding("WARNING", "failed_pods", NamedN(ns, s.failed))>>
                    ELSE <<>>)
                \o (IF s.pending > 0
                    THEN <<FormatFinding("WARNING", "pending_pods", NamedN(ns, s.pending))>>
                    ELSE <<>>)
    IN  TsSec(<<Section("Pod Health by Namespace")>>
              \o [i \in 1..Len(sorted) |->
                    Text("tally_row", NamedN(sorted[i], tsNsStats(pods, sorted[i]).total))]
              \o <<Text("totals", N(Len(pods)))>>,
              FlatSeq([i \in 1..Len(sorted) |-> perNs(sorted[i])]),
              <<"listPods">>)

\* [3] SERVICE ENDPOINT HEALTH
tchoServices(listing) ==
    IF listing.err
    THEN TsSec(<<Section("Service Endpoint Health"),
                 Text("could_not_evaluate_service_endpoints", N(0))>>, <<>>, <<"listServices">>)
    ELSE LET target == SelectSeq(listing.items, LAMBDA s :
                           s.ClusterIP # "None" /\ s.Selector # {})
             isDead(s) == s.ep.err \/ tsReadyCount(s.ep) = 0
             deadSvc == Len(SelectSeq(target, isDead))
             degradedSvc == Len(SelectSeq(target, LAMBDA s :
                                   ~isDead(s) /\ tsNotReadyCount(s.ep) > 0))
         IN  TsSec(<<Section("Service Endpoint Health"),
                     Text("service_totals", NM(deadSvc, degradedSvc))>>,
                   (IF deadSvc > 0
                    THEN <<FormatFinding("CRITICAL", "no_ready_endpoints", N(deadSvc))>>
                    ELSE <<>>)
                   \o (IF degradedSvc > 0
                       THEN <<FormatFinding("WARNING", "degraded_endpoints", N(degradedSvc))>>
                       ELSE <<>>),
                   <<"listServices">> \o [i \in 1..Len(target) |-> "getEndpoints"])

\* [4] RECENT WARNING EVENTS
tchoEvents(listing, now) ==
    IF listing.err
    THEN TsSec(<<Section("Recent Warning Events"), Text("could_not_fetch_events", N(0))>>,
               <<>>, <<"listEvents">>)
    ELSE LET warnings == recentWarnings(listing.items, now)
         IN  IF warnings = 0
             THEN TsSec(<<Section("Recent Warning Events"), Text("no_warning_events", N(0))>>,
                        <<>>, <<"listEvents">>)
             ELSE TsSec(<<Section("Recent Warning Events"), Text("reason_counts", N(warnings)),
                          Text("total_warning_events", N(warnings))>>,
                        <<FormatFinding("WARNING", "warning_events_last_hour", N(warnings))>>,
                        <<"listEvents">>)

\* The report of ClusterHealthOverviewTool after listNodes and listPods
\* have succeeded: the sections, the findings by severity, the pie chart
tsClusterHealthOverview(in, now) ==
    LET all == FoldSeq(LAMBDA c, s : TsSec(c.lines \o s.lines, c.findings \o s.findings,
                                           c.calls \o s.calls),
                       TsSec(<<>>, <<>>, <<>>),
                       <<tchoNodes(in.nodes.items, in.nodeMetrics), tchoPods(in.pods.items),
                         tchoServices(in.services), tchoEvents(in.events, now)>>)
        bySev(sev) == SelectSeq(all.findings, LAMBDA f : f.sev = sev)
    IN  [lines |-> all.lines
                   \o <<Section("Overall Assessment")>>
                   \o (IF all.findings = <<>> THEN <<Text("appears_healthy", N(0))>>
                       ELSE bySev("CRITICAL") \o bySev("WARNING") \o bySev("INFO")
                            \o <<Text("summary", NM(Len(bySev("CRITICAL")),
                                                    Len(bySev("WARNING"))))>>)
                   \o <<Section("POD STATUS DISTRIBUTION")>>,
         findings |-> all.findings,
         calls |-> all.calls]

OverviewEngines == {"go_overview", "go_diag_cluster", "ts_overview"}

InitOverview ==
    /\ engine \in OverviewEngines
    /\ input \in OverviewInputs
    /\ pc = "call"
    /\ loc = [err |-> FALSE, now |-> StartTime]
    /\ lines = <<>>
    /\ findings = IF engine = "ts_overview" THEN <<>> ELSE 0
    /\ actions = <<>>
    /\ fc = NewFlowchart
    /\ calls = <<>>

\* cluster_health_overview: the error result when ListNodes fails
ClusterHealthOverview ==
    /\ engine = "go_overview" /\ pc = "call"
    /\ IF input.nodes.err
       THEN /\ loc' = [loc EXCEPT !.err = TRUE]
            /\ calls' = <<"ListNodes">>
            /\ UNCHANGED <<lines, findings, fc>>
       ELSE \E rows \in TallyOrders(IF input.pods.err THEN {}
                                    ELSE nsPodsOf(input.pods.items)) :
            LET rep == clusterHealthOverview(input, loc.now, rows)
            IN  /\ lines' = rep.lines
                /\ findings' = rep.n
                /\ fc' = rep.fc
                /\ calls' = rep.calls
                /\ UNCHANGED loc
    /\ pc' = "done"
    /\ UNCHANGED <<engine, input, actions>>

\* diagnose_cluster: the error result when ListNodes fails
DiagnoseCluster ==
    /\ engine = "go_diag_cluster" /\ pc = "call"
    /\ IF input.nodes.err
       THEN /\ loc' = [loc EXCEPT !.err = TRUE]
            /\ calls' = <<"ListNodes">>
            /\ UNCHANGED <<lines, findings>>
       ELSE LET rep == diagnoseCluster(input, loc.now)
            IN  /\ lines' = rep.lines
                /\ findings' = rep.n
                /\ calls' = rep.calls
                /\ UNCHANGED loc
    /\ pc' = "done"
    /\ UNCHANGED <<engine, input, actions, fc>>

\* ClusterHealthOverviewTool.invoke: the outer catch turns a failure of
\* listNodes or of listPods into the error result
TsClusterHealthOverview ==
    /\ engine = "ts_overview" /\ pc = "call"
    /\ IF input.nodes.err \/ input.pods.err
       THEN /\ loc' = [loc EXCEPT !.err = TRUE]
            /\ calls' = IF input.nodes.err THEN <<"listNodes">>
                        ELSE <<"listNodes", "getNodeMetrics", "listPods">>
            /\ UNCHANGED <<lines, findings>>
       ELSE LET rep == tsClusterHealthOverview(input, loc.now)
            IN  /\ lines' = rep.lines
                /\ findings' = rep.findings
                /\ calls' = rep.calls
                /\ UNCHANGED loc
    /\ pc' = "done"
    /\ UNCHANGED <<engine, input, actions, fc>>

NextOverview == ClusterHealthOverview \/ DiagnoseCluster \/ TsClusterHealthOverview

SpecOverview == InitOverview /\ [][NextOverview]_vars

OverviewDone == engine \in OverviewEngines /\ pc = "done"

\* The accessor calls each engine makes for its sub-sections, whatever the
\* result of the others
SubSectionCalls ==
    CASE engine = "go_overview" ->
           {"ListNodes", "GetNodeMetrics", "ListPods", "ListServices", "ListEvents"}
      [] engine = "go_diag_cluster" ->
           {"ListNodes", "GetNodeMetrics", "ListPods", "ListEvents"}
      [] OTHER -> {"listNodes", "getNodeMetrics", "listPods", "listServices", "listEvents"}

ReportProduced ==
    /\ ~loc.err
    /\ \E i \in 1..Len(lines) : lines[i] = Section("Overall Assessment")

\* C18: in the cluster health overview every sub-section (node readiness,
\* utilization, per-namespace pod tally, service endpoint scan, warning events,
\* kube-system check) is independently optional: whichever fetches fail, every
\* sub-section's fetch is still attempted and the report, ending in its
\* overall assessment, is still produced.
C18_SubSectionsIndependentlyOptional ==
    OverviewDone => (ReportProduced /\ SubSectionCalls \subseteq Range(calls))

\* Once the node list (and, in TS, the pod list) has been fetched, no other
\* failure aborts the report
C18_OptionalAfterRequiredLists ==
    (OverviewDone /\ ~input.nodes.err /\ (engine = "ts_overview" => ~input.pods.err))
        => (ReportProduced /\ SubSectionCalls \subseteq Range(calls))

-----------------------------------------------------------------------------
(* map_service_topology (Go) *)

WebDot1 == <<"w", "e", "b", ".", "1">>
IdINTERNET == <<"I", "N", "T", "E", "R", "N", "E", "T">>

\* A line of a subgraph: a line of its own kind, indented
SgNode(id, label) == [k |-> "node", id |-> id, to |-> <<>>, label |-> label]

\* Flowchart.AddSubgraph: the header, the lines the callback collected, "end"
AddSubgraph(f, id, sgLines) ==
    [f EXCEPT !.lines = @ \o <<[k |-> "subgraph", id |-> id, to |-> <<>>, label |-> <<>>]>>
                          \o sgLines
                          \o <<[k |-> "end", id |-> <<>>, to |-> <<>>, label |-> <<>>]>>]

\* A service of the namespace with what GetPodsForService and
\* GetServiceEndpointHealth answer for it
TSvc(name, type, selector, pods, health) ==
    [Name |-> name, Type |-> type, Selector |-> selector, pods |-> pods, health |-> health]

\* api and web select the same pod web-1; db is backed by web.1
TopoSvcPool == <<
    TSvc(SvcApi, "ClusterIP", {LabelApi}, Listing(FALSE, <<PodPool[1]>>),
         Got(FALSE, [subsets |-> <<SubsetPool[2]>>])),
    TSvc(SvcWeb, "ClusterIP", {LabelApi}, Listing(FALSE, <<PodPool[1], PodPool[2]>>),
         Got(FALSE, [subsets |-> <<SubsetPool[3]>>])),
    TSvc(SvcDb, "ClusterIP", {LabelWeb},
         Listing(FALSE, <<Pod(WebDot1, "Running", "", <<ContainerStatus(TRUE, "nil", "nil", 0)>>,
                              <<Container("app", 100, 100, TRUE, TRUE)>>)>>),
         Got(TRUE, [subsets |-> <<>>])) >>

TopoServiceListings ==
    {Listing(TRUE, <<>>)} \cup {Listing(FALSE, l) : l \in SubLists(TopoSvcPool, 2)}

TopoIngressListings ==
    {Listing(TRUE, <<>>), Listing(FALSE, <<>>), Listing(FALSE, <<IngressPool[1]>>),
     Listing(FALSE, <<IngressPool[4], IngressPool[3]>>)}

Dep(from, to, confidence) == [FromService |-> from, ToService |-> to, Confidence |-> confidence]

\* What InferServiceDependencies can answer for the listed services
TopoDeps(services) ==
    {Listing(TRUE, <<>>), Listing(FALSE, <<>>)}
    \cup {Listing(FALSE, <<Dep(ab[1].Name, ab[2].Name, "high")>>) :
             ab \in {p \in Range(services) \X Range(services) : p[1] # p[2]}}

\* The orders in which the six `range svcMap` loops can visit the services
SvcOrders(services) ==
    LET perms == {p \in Arrangements(Range(services), Len(services)) :
                     Len(p) = Len(services)}
    IN  [1..6 -> perms]

TopoInputs ==
    UNION {[ns : {"prod", "all"}, services : {sl}, ingresses : TopoIngressListings,
            deps : TopoDeps(sl.items), order : SvcOrders(sl.items)] :
           sl \in TopoServiceListings}

\* svcInfo: Pods stays nil and HealthOK false when the lookup failed
svcInfo(svc) ==
    [Service |-> svc,
     Pods |-> IF svc.pods.err THEN <<>> ELSE GetPodsForService(svc, svc.pods).items,
     HealthOK |-> ~svc.health.err,
     Health |-> IF svc.health.err THEN NilHealth ELSE GetServiceEndpointHealth(svc.health.obj)]

\* FINDINGS: of one service
mstFindingsOf(info) ==
    (IF info.HealthOK /\ info.Health.TotalEndpoints = 0
     THEN <<FormatFinding("CRITICAL", "zero_endpoints", Named(info.Service.Name))>>
     ELSE IF info.HealthOK /\ info.Health.NotReadyCount > 0
     THEN <<FormatFinding("WARNING", "not_ready_endpoints",
                          [name |-> info.Service.Name, n |-> info.Health.NotReadyCount,
                           m |-> info.Health.TotalEndpoints])>>
     ELSE <<>>)
    \o (IF info.Service.Selector = {} /\ info.Service.Type # "ExternalName"
        THEN <<FormatFinding("INFO", "no_selector", Named(info.Service.Name))>>
        ELSE <<>>)

\* The hosts of an ingress joined for its label, the backends of its paths
ingBackends(ing) ==
    FlatSeq([r \in 1..Len(ing.rules) |->
               IF ~ing.rules[r].http THEN <<>>
               ELSE LET ps == SelectSeq(ing.rules[r].paths, LAMBDA p : p.svc # <<>>)
                    IN  [k \in 1..Len(ps) |-> ps[k].svc]])

\* The Mermaid flowchart; infos[k] is the order of the k-th loop over svcMap
mstDiagram(infos, ingresses, deps) ==
    LET ings == ingresses.items
        ingID(ing) == SafeID(StrIng \o ing.name)
        svcID(name) == SafeID(StrSvc \o name)
        podID(p) == SafeID(PodPrefix \o p.Name)
        podsOf(k) == FlatSeq([i \in 1..Len(infos[k]) |->
                                [j \in 1..Len(infos[k][i].Pods) |->
                                   [svc |-> infos[k][i].Service.Name,
                                    pod |-> infos[k][i].Pods[j]]]])
        f1 == IF Len(ings) > 0
              THEN AddStyle(AddNode(NewFlowchart, IdINTERNET, <<"Internet">>),
                            IdINTERNET, "info")
              ELSE NewFlowchart
        f2 == IF Len(ings) > 0
              THEN FoldSeq(LAMBDA f, ing : AddEdge(f, IdINTERNET, ingID(ing), <<>>),
                           AddSubgraph(f1, <<"i", "n", "g", "r", "e", "s", "s", "e", "s">>,
                                       [i \in 1..Len(ings) |->
                                          SgNode(ingID(ings[i]), ings[i].name)]),
                           ings)
              ELSE f1
        f3 == AddSubgraph(f2, <<"s", "v", "c", "_", "s", "u", "b">>,
                          [i \in 1..Len(infos[2]) |->
                             SgNode(svcID(infos[2][i].Service.Name), infos[2][i].Service.Name)])
        f4 == FoldSeq(LAMBDA f, info :
                         AddStyle(f, svcID(info.Service.Name),
                                  IF info.HealthOK /\ info.Health.TotalEndpoints = 0
                                  THEN "critical"
                                  ELSE IF info.HealthOK /\ info.Health.NotReadyCount > 0
                                  THEN "warning" ELSE "healthy"),
                      f3, infos[3])
        f5 == FoldSeq(LAMBDA f, ing :
                         FoldSeq(LAMBDA g, name : AddEdge(g, ingID(ing), svcID(name), ing.name),
                                 f, ingBackends(ing)),
                      f4, ings)
        f6 == AddSubgraph(f5, <<"p", "o", "d", "s", "_", "s", "u", "b">>,
                          [i \in 1..Len(podsOf(4)) |->
                             SgNode(podID(podsOf(4)[i].pod), podsOf(4)[i].pod.Name)])
        f7 == FoldSeq(LAMBDA f, sp :
                         AddStyle(f, podID(sp.pod),
                                  IF isPodHealthy(sp.pod) THEN "healthy" ELSE "critical"),
                      f6, podsOf(5))
        f8 == FoldSeq(LAMBDA f, sp : AddEdge(f, svcID(sp.svc), podID(sp.pod), <<>>),
                      f7, podsOf(6))
    IN  IF deps.err THEN f8
        ELSE FoldSeq(LAMBDA f, dep : AddEdge(f, svcID(dep.FromService), svcID(dep.ToService),
                                             dep.Confidence),
                     f8, deps.items)

\* The report of map_service_topology once a service has been listed
mapServiceTopology(in) ==
    LET infos == [k \in 1..6 |-> [i \in 1..Len(in.order[k]) |-> svcInfo(in.order[k][i])]]
        listed == [i \in 1..Len(in.services.items) |-> svcInfo(in.services.items[i])]
        ings == in.ingresses.items
        found == FlatSeq([i \in 1..Len(infos[1]) |-> mstFindingsOf(infos[1][i])])
    IN  [lines |-> <<Section("Services")>>
                   \o [i \in 1..Len(listed) |->
                         Text("service_row", NamedN(listed[i].Service.Name,
                                                    Len(listed[i].Pods)))]
                   \o <<Text("count_services", N(Len(listed)))>>
                   \o (IF in.ingresses.err
                       THEN <<FormatFinding("WARNING", "could_not_list_ingresses", N(0))>>
                       ELSE <<>>)
                   \o (IF Len(ings) > 0
                       THEN <<Section("Ingresses")>>
                            \o [i \in 1..Len(ings) |-> Text("ingress_row", Named(ings[i].name))]
                            \o <<Text("count_ingresses", N(Len(ings)))>>
                       ELSE <<>>)
                   \o (IF ~in.deps.err /\ Len(in.deps.items) > 0
                       THEN <<Section("Inferred Service Dependencies")>>
                            \o [i \in 1..Len(in.deps.items) |->
                                  Text("dep_row", Named(in.deps.items[i].FromService))]
                       ELSE <<>>)
                   \o <<Section("FINDINGS")>> \o found
                   \o (IF found = <<>> THEN <<Text("no_issues_found", N(0))>> ELSE <<>>),
         n |-> Len(found),
         fc |-> mstDiagram(infos, in.ingresses, in.deps),
         calls |-> <<"ListServices">>
                   \o FlatSeq([i \in 1..Len(listed) |->
                                 (IF listed[i].Service.Selector = {} THEN <<>>
                                  ELSE <<"ListPods">>) \o <<"GetServiceEndpointHealth">>])
                   \o <<"ListIngresses", "InferServiceDependencies">>]

InitTopo ==
    /\ engine = "go_topology"
    /\ input \in TopoInputs
    /\ pc = "call"
    /\ loc = [err |-> FALSE]
    /\ lines = <<>>
    /\ findings = 0
    /\ actions = <<>>
    /\ fc = NewFlowchart
    /\ calls = <<>>

\* map_service_topology: an error result without a namespace or a service
\* list, the bare header when the namespace has no service
MapServiceTopology ==
    /\ engine = "go_topology" /\ pc = "call"
    /\ IF input.ns = "all"
       THEN /\ loc' = [err |-> TRUE]
            /\ UNCHANGED <<lines, findings, fc, calls>>
       ELSE IF input.services.err
       THEN /\ loc' = [err |-> TRUE]
            /\ calls' = <<"ListServices">>
            /\ UNCHANGED <<lines, findings, fc>>
       ELSE IF Len(input.services.items) = 0
       THEN /\ lines' = <<Section("Services"), Text("no_services_found", N(0))>>
            /\ calls' = <<"ListServices">>
            /\ UNCHANGED <<loc, findings, fc>>
       ELSE LET rep == mapServiceTopology(input)
            IN  /\ lines' = rep.lines
                /\ findings' = rep.n
                /\ fc' = rep.fc
                /\ calls' = rep.calls
                /\ UNCHANGED loc
    /\ pc' = "done"
    /\ UNCHANGED <<engine, input, actions>>

NextTopo == MapServiceTopology

SpecTopo == InitTopo /\ [][NextTopo]_vars

TopoDone == engine = "go_topology" /\ pc = "done"

\* The node declarations of the flowchart, in order
NodeLines(f) == SelectSeq(f.lines, LAMBDA l : l.k = "node")

\* C21: a topology graph never contains two nodes with the same node ID: the
\* IDs the id-safing function gives the distinct resources shown are pairwise
\* distinct, and no resource is added as a node twice.
C21_NoDuplicateNodeIds ==
    TopoDone => \A i, j \in 1..Len(NodeLines(fc)) :
                    NodeLines(fc)[i].id = NodeLines(fc)[j].id => i = j

\* The service and ingress nodes alone are pairwise distinct
C21_ServiceNodesDistinct ==
    TopoDone => \A i, j \in 1..Len(NodeLines(fc)) :
                    (/\ NodeLines(fc)[i].id = NodeLines(fc)[j].id
                     /\ HasPrefix(NodeLines(fc)[i].id, StrSvc)) => i = j

\* C30: every edge of a rendered topology flowchart connects two node IDs that
\* are both declared as nodes in that same flowchart: no edge has a dangling
\* endpoint.
C30_NoDanglingEdge ==
    TopoDone => \A e \in EdgeSet(fc) : e[1] \in NodeIds(fc) /\ e[2] \in NodeIds(fc)

\* The edges from a service to its pods and from the internet to an ingress
\* never dangle
C30_PodAndInternetEdgesDeclared ==
    TopoDone => \A e \in EdgeSet(fc) :
                    (e[1] = IdINTERNET \/ HasPrefix(e[2], PodPrefix))
                        => (e[1] \in NodeIds(fc) /\ e[2] \in NodeIds(fc))

-----------------------------------------------------------------------------
(* Diagram builders: Flowchart and Sequence (pkg/mermaid) *)

IdA == <<"a">>
IdB == <<"b">>

HeaderLine(kind) == [k |-> kind, id |-> <<>>, to |-> <<>>, label |-> <<>>]
StyleLine(s)     == [k |-> "style", id |-> s.id, to |-> <<>>, label |-> <<s.style>>]

FlowchartRenderStylesFirst(f) ==
    <<HeaderLine("flowchart")>> \o [i \in 1..Len(f.styles) |-> StyleLine(f.styles[i])] \o f.lines

\* Flowchart.Render: the header, every line, then every style
FlowchartRender(f) ==
    <<HeaderLine("flowchart")>> \o f.lines \o [i \in 1..Len(f.styles) |-> StyleLine(f.styles[i])]

\* Sequence.Render: the header, then every line
SequenceRender(s) == <<HeaderLine("sequenceDiagram")>> \o s.lines

\* Sequence.AddParticipant and Sequence.AddMessage
AddParticipant(s, id) ==
    [s EXCEPT !.lines = Append(@, [k |-> "participant", id |-> id, to |-> <<>>, label |-> id])]

AddMessage(s, from, to) ==
    [s EXCEPT !.lines = Append(@, [k |-> "message", id |-> from, to |-> to, label |-> <<>>])]

\* Sequence.AddRect: "rect", the lines the callback collected, "end"
AddRect(s, inner) ==
    [s EXCEPT !.lines = @ \o <<HeaderLine("rect")>> \o inner \o <<HeaderLine("end")>>]

\* One operation of the history: its kind and the builder after it
BuilderOps(f) ==
    IF engine = "Flowchart"
    THEN {[kind |-> "node", after |-> AddNode(f, id, id)] : id \in {IdA, IdB}}
         \cup {[kind |-> "edge", after |-> AddEdge(f, IdA, IdB, <<>>)],
               [kind |-> "subgraph", after |-> AddSubgraph(f, IdSvc, <<SgNode(IdB, IdB)>>)],
               [kind |-> "style", after |-> AddStyle(f, IdA, "critical")],
               [kind |-> "style", after |-> AddStyle(f, IdB, "healthy")]}
    ELSE {[kind |-> "participant", after |-> AddParticipant(f, IdA)],
          [kind |-> "message", after |-> AddMessage(f, IdA, IdB)],
          [kind |-> "rect", after |-> AddRect(f, <<HeaderLine("activate")>>)]}

\* What an operation appended to the builder, as rendered lines
Appended(before, after) ==
    SubSeq(after.lines, Len(before.lines) + 1, Len(after.lines))
    \o [i \in 1..(Len(after.styles) - Len(before.styles)) |->
          StyleLine(after.styles[Len(before.styles) + i])]

InitBuilder ==
    /\ engine \in {"Flowchart", "Sequence"}
    /\ input = <<>>
    /\ pc = "build"
    /\ loc = [err |-> FALSE]
    /\ lines = <<>>
    /\ findings = 0
    /\ actions = <<>>
    /\ fc = NewFlowchart
    /\ calls = <<>>

\* One Add... call on the builder; actions records what each call appended
BuilderAdd ==
    /\ pc = "build" /\ Len(actions) < MaxOps
    /\ \E op \in BuilderOps(fc) :
          /\ fc' = op.after
          /\ actions' = Append(actions, [kind |-> op.kind, out |-> Appended(fc, op.after)])
    /\ UNCHANGED <<engine, input, pc, loc, lines, findings, calls>>

\* Render
BuilderRender ==
    /\ pc = "build"
    /\ lines' = IF engine = "Flowchart" THEN FlowchartRender(fc) ELSE SequenceRender(fc)
    /\ pc' = "done"
    /\ UNCHANGED <<engine, input, loc, findings, actions, fc, calls>>

NextBuilder == BuilderAdd \/ BuilderRender

SpecBuilder == InitBuilder /\ [][NextBuilder]_vars

Rendered == engine \in {"Flowchart", "Sequence"} /\ pc = "done"

\* The lines of the operations of the history that satisfy Keep, in call order
OutOf(Keep(_)) ==
    FlatSeq([i \in 1..Len(actions) |-> IF Keep(actions[i]) THEN actions[i].out ELSE <<>>])

\* C22: the final render order matches insertion order exactly: for any
\* sequence of add-node, add-edge, add-subgraph and add-style operations the
\* rendered lines appear in the order in which the operations were made.
C22_RenderIsInsertionOrder ==
    Rendered => Tail(lines) = OutOf(LAMBDA op : TRUE)

\* C22, amended: nodes, edges and subgraphs are rendered in the order of their
\* calls, and the style lines follow all of them, in the order of their calls;
\* a sequence diagram is rendered in call order throughout.
C22_LinesInOrderThenStyles ==
    Rendered => Tail(lines) = OutOf(LAMBDA op : op.kind # "style")
                              \o OutOf(LAMBDA op : op.kind = "style")

\* A style was added before a node, and the diagram has been rendered
C22_Witness ==
    /\ Rendered /\ engine = "Flowchart"
    /\ \E i, j \in 1..Len(actions) :
          i < j /\ actions[i].kind = "style" /\ actions[j].kind = "node"

-----------------------------------------------------------------------------
(* top_resource_consumers (Go) *)

\* util.DefaultTopLimit
DefaultTopLimit == 10

\* podUsage: the pod's position in the metrics list stands for its name
PodUsage(i, cpu, mem) == [Name |-> Itoa(i), CPU |-> cpu, Memory |-> mem]

\* Metrics lists of at most MaxPods pods
ShortUsages ==
    {[i \in 1..Len(v) |-> PodUsage(i, v[i][1], v[i][2])] :
        v \in SeqsUpTo({<<50, 60>>, <<60, 50>>}, MaxPods)}

\* Metrics lists of 13 pods: the first two use 50 or 60 of each resource, the
\* others less and less CPU and more and more memory
LongUsages ==
    {[i \in 1..13 |->
        IF i <= 2 THEN PodUsage(i, v[i][1], v[i][2]) ELSE PodUsage(i, 40 - i, 70 + i)] :
        v \in [1..2 -> {<<50, 60>>, <<60, 50>>}]}

TopNInputs ==
    [metrics  : {Listing(TRUE, <<>>)} \cup {Listing(FALSE, l) : l \in ShortUsages \cup LongUsages},
     resource : {"cpu", "memory"},
     limit    : {0, 1, 2}]

\* The orders that differ from s in one pair of neighbours neither of which
\* is less than the other
TieSwaps(s, Less(_, _)) ==
    {[k \in 1..Len(s) |-> IF k = i THEN s[i + 1] ELSE IF k = i + 1 THEN s[i] ELSE s[k]] :
        i \in {j \in 1..(Len(s) - 1) : ~Less(s[j], s[j + 1]) /\ ~Less(s[j + 1], s[j])}}

\* Every order reached from s by such swaps (Len(s) rounds reach them all
\* while no more than four elements are equal)
TieOrders(s, Less(_, _)) ==
    LET f[n \in 0..Len(s)] ==
            IF n = 0 THEN {s}
            ELSE f[n - 1] \cup UNION {TieSwaps(t, Less) : t \in f[n - 1]}
    IN  f[Len(s)]

\* sort.Slice: an insertion sort on at most 12 elements; on more, a
\* pattern-defeating quicksort, which is not stable: the elements are in
\* order, equal elements in any order
SortSliceOrders(s, Less(_, _)) ==
    IF Len(s) <= 12 THEN {SortSlice(s, Less)}
    ELSE TieOrders(SortSlice(s, Less), Less)

\* The metric top_resource_consumers sorts by
topMetric(resource, u) == IF resource \in {"memory", "mem"} THEN u.Memory ELSE u.CPU

\* The rows of the table, given the order sort.Slice left the usages in
topRows(in, sorted) ==
    LET limit == IF in.limit <= 0 THEN DefaultTopLimit ELSE in.limit
        usages == IF Len(sorted) > limit THEN SubSeq(sorted, 1, limit) ELSE sorted
    IN  [i \in 1..Len(usages) |->
           Text("row", [name |-> usages[i].Name, n |-> i,
                        m |-> topMetric(in.resource, usages[i])])]

InitTopN ==
    /\ engine = "top_resource_consumers"
    /\ input \in TopNInputs
    /\ pc = "call"
    /\ loc = [err |-> FALSE]
    /\ lines = <<>>
    /\ findings = 0
    /\ actions = <<>>
    /\ fc = NewFlowchart
    /\ calls = <<>>

\* top_resource_consumers
TopResourceConsumers ==
    /\ engine = "top_resource_consumers" /\ pc = "call"
    /\ IF input.metrics.err
       THEN /\ loc' = [err |-> TRUE]
            /\ UNCHANGED lines
       ELSE \E sorted \in SortSliceOrders(input.metrics.items,
                              LAMBDA a, b : topMetric(input.resource, a)
                                                > topMetric(input.resource, b)) :
            /\ lines' = <<Section("Top Resource Consumers")>> \o topRows(input, sorted)
            /\ UNCHANGED loc
    /\ calls' = <<"GetPodMetrics">>
    /\ pc' = "done"
    /\ UNCHANGED <<engine, input, findings, actions, fc>>

NextTopN == TopResourceConsumers

SpecTopN == InitTopN /\ [][NextTopN]_vars

TopNDone == engine = "top_resource_consumers" /\ pc = "done" /\ ~loc.err

\* The rows of the report: the pods chosen, in order
TopRows == Tail(lines)

\* The position in the metrics list of the pod of a row
Discovered(row) ==
    CHOOSE i \in 1..Len(input.metrics.items) : input.metrics.items[i].Name = row.arg.name

\* The pods are in descending order of the metric
DescendingMetric ==
    \A i, j \in 1..Len(TopRows) : i < j => TopRows[i].arg.m >= TopRows[j].arg.m

\* C23: top-N selection uses a stable descending sort with ties broken by
\* discovery order: the selected items are in descending metric order, items
\* with equal metric keep their discovery order, and so no pod left out was
\* discovered before a chosen pod of the same metric.
C23_StableDescendingTopN ==
    TopNDone =>
        /\ DescendingMetric
        /\ \A i, j \in 1..Len(TopRows) :
              (i < j /\ TopRows[i].arg.m = TopRows[j].arg.m)
                  => Discovered(TopRows[i]) < Discovered(TopRows[j])
        /\ \A i \in 1..Len(TopRows) : \A k \in 1..Len(input.metrics.items) :
              (/\ topMetric(input.resource, input.metrics.items[k]) = TopRows[i].arg.m
               /\ k < Discovered(TopRows[i]))
                  => \E j \in 1..Len(TopRows) : Discovered(TopRows[j]) = k

\* The selection is always in descending order of the metric
C23_DescendingTopN == TopNDone => DescendingMetric

-----------------------------------------------------------------------------
(* One attempt per fetch *)

\* How often the accessor call c was made
TimesCalled(c) == Cardinality({i \in 1..Len(calls) : calls[i] = c})

\* C24: within one diagnostic invocation there is no caching and no retry:
\* each logical fetch (a given list or get of a given resource) is attempted
\* exactly once.
C24_EachFetchAttemptedOnce ==
    SvcDiagDone => \A c \in Range(calls) : TimesCalled(c) = 1

\* diagnose_service (Go) alone makes every one of its calls once
C24_GoEachFetchAttemptedOnce ==
    (SvcDiagDone /\ engine = "go_diag_svc") => \A c \in Range(calls) : TimesCalled(c) = 1

\* ---------------------------------------------------------------------------
\* Cancellation of a running diagnose_service call.  The handler hands its ctx
\* to every accessor; each accessor derives a timeout context from it and
\* passes that to the API request.  The handler never looks at ctx.Err().

\* the accessor calls of diagnose_service, in the order the handler makes them
dsCallOrder(in) ==
    <<"GetService", "GetEndpoints">>
    \o (IF in.hasSelector THEN <<"ListPods">> ELSE <<>>)
    \o <<"GetPodMetrics", "ListIngresses", "ListNetworkPolicies", "GetEventsForObject">>

InitCancel ==
    /\ engine = "go_diag_svc"
    /\ input \in [hasSelector : BOOLEAN]
    /\ pc = "between"
    /\ loc = [cancelled |-> FALSE, startedCancelled |-> FALSE]
    /\ lines = <<>>
    /\ findings = 0
    /\ actions = <<>>
    /\ fc = NewFlowchart
    /\ calls = <<>>

\* the caller cancels the ctx of the invocation, at any moment before the end
CancelInvocation ==
    /\ pc \in {"between", "in_call"}
    /\ ~loc.cancelled
    /\ loc' = [loc EXCEPT !.cancelled = TRUE]
    /\ UNCHANGED <<engine, pc, input, lines, findings, actions, fc, calls>>

\* the handler reaches its next accessor call: context.WithTimeout(ctx, ...)
\* and the request are issued whatever the state of ctx
StartResolverCall ==
    /\ pc = "between"
    /\ Len(calls) < Len(dsCallOrder(input))
    /\ calls' = Append(calls, dsCallOrder(input)[Len(calls) + 1])
    /\ loc' = [loc EXCEPT !.startedCancelled = loc.cancelled]
    /\ pc' = "in_call"
    /\ UNCHANGED <<engine, input, lines, findings, actions, fc>>

\* the request returns: with its answer, with an API error, or, once the
\* parent ctx is cancelled, with the context error (at once when the call
\* began on a cancelled ctx, midway when the cancellation came during it).
\* Only a failed GetService ends the handler; every later section goes on.
FinishResolverCall ==
    /\ pc = "in_call"
    /\ \E outcome \in (IF loc.startedCancelled THEN {"canceled"}
                       ELSE {"ok", "err"} \cup (IF loc.cancelled THEN {"interrupted"} ELSE {})) :
          /\ actions' = Append(actions, outcome)
          /\ pc' = IF \/ (Len(calls) = 1 /\ outcome # "ok")
                      \/ Len(calls) = Len(dsCallOrder(input))
                   THEN "done" ELSE "between"
    /\ UNCHANGED <<engine, input, loc, lines, findings, fc, calls>>

NextCancel == CancelInvocation \/ StartResolverCall \/ FinishResolverCall

SpecCancel == InitCancel /\ [][NextCancel]_vars

\* C25: once the caller has cancelled the invocation no further resolver call
\* is started, and a resolver call that is in progress at the cancellation is
\* not interrupted midway.
C25_CancelAtResolverBoundary ==
    [][loc.cancelled => /\ calls' = calls
                        /\ (Len(actions') > Len(actions)
                              => actions'[Len(actions')] # "interrupted")]_vars

\* a resolver call fails with the context error only after the cancellation
C25_ContextErrorOnlyAfterCancel ==
    \A i \in 1..Len(actions) :
        actions[i] \in {"canceled", "interrupted"} => loc.cancelled

\* ---------------------------------------------------------------------------
\* list_endpoint_health: one table row and at most one finding per service

EpEndpoints ==
    {Got(TRUE, [subsets |-> <<>>]), Got(FALSE, [subsets |-> <<>>])}
    \cup {Got(FALSE, [subsets |-> <<SubsetPool[i]>>]) : i \in 1..Len(SubsetPool)}

EpSvcPool(name) ==
    {OvSvc(name, type, selector, "10.1.0.1", ep) :
        type \in {"ClusterIP", "ExternalName"}, selector \in {{}, {LabelApi}},
        ep \in EpEndpoints}

EpServiceListings ==
    {Listing(TRUE, <<>>), Listing(FALSE, <<>>)}
    \cup {Listing(FALSE, <<a>>) : a \in EpSvcPool(SvcApi)}
    \cup {Listing(FALSE, <<a, b>>) : a \in EpSvcPool(SvcApi), b \in EpSvcPool(SvcWeb)}

EpHealthInputs == [ns : {"", "prod"}, services : EpServiceListings]

\* the STATUS column of one service
lehStatus(svc) ==
    LET health == GetServiceEndpointHealth(svc.ep.obj)
    IN  IF svc.ep.err THEN "ERROR"
        ELSE IF svc.Type = "ExternalName" THEN "EXTERNAL"
        ELSE IF health.TotalEndpoints = 0
             THEN (IF svc.Selector = {} THEN "NO-SELECTOR" ELSE "DEAD")
        ELSE IF health.NotReadyCount > 0 THEN "DEGRADED"
        ELSE "HEALTHY"

lehRow(svc) ==
    LET health == GetServiceEndpointHealth(svc.ep.obj)
    IN  IF svc.ep.err
        THEN [name |-> svc.Name, type |-> svc.Type, total |-> <<"?">>, ready |-> <<"?">>,
              notReady |-> <<"?">>, status |-> "ERROR"]
        ELSE [name |-> svc.Name, type |-> svc.Type, total |-> Itoa(health.TotalEndpoints),
              ready |-> Itoa(health.ReadyCount), notReady |-> Itoa(health.NotReadyCount),
              status |-> lehStatus(svc)]

lehFindings(rows) ==
    FlatSeq([i \in 1..Len(rows) |->
        IF rows[i].status = "DEAD"
        THEN <<FormatFinding("CRITICAL", "zero_ready_endpoints", Named(rows[i].name))>>
        ELSE IF rows[i].status = "DEGRADED"
        THEN <<FormatFinding("WARNING", "not_ready_endpoints", Named(rows[i].name))>>
        ELSE IF rows[i].status = "ERROR"
        THEN <<FormatFinding("WARNING", "could_not_check", Named(rows[i].name))>>
        ELSE <<>>])

InitEpHealth ==
    /\ engine = "list_endpoint_health"
    /\ input \in EpHealthInputs
    /\ pc = "call"
    /\ loc = [err |-> FALSE]
    /\ lines = <<>>
    /\ findings = 0
    /\ actions = <<>>
    /\ fc = NewFlowchart
    /\ calls = <<>>

ListEndpointHealth ==
    /\ engine = "list_endpoint_health" /\ pc = "call"
    /\ IF input.ns = ""
       THEN /\ loc' = [err |-> TRUE]
            /\ UNCHANGED <<lines, findings, actions, calls>>
       ELSE IF input.services.err
       THEN /\ loc' = [err |-> TRUE]
            /\ calls' = <<"ListServices">>
            /\ UNCHANGED <<lines, findings, actions>>
       ELSE LET svcs == input.services.items
                rows == [i \in 1..Len(svcs) |-> lehRow(svcs[i])]
                found == lehFindings(rows)
            IN  /\ actions' = rows
                /\ lines' = IF Len(svcs) = 0 THEN <<Text("no_services", N(0))>>
                            ELSE found \o (IF Len(found) = 0
                                           THEN <<Text("all_healthy", N(0))>> ELSE <<>>)
                /\ findings' = IF Len(svcs) = 0 THEN 0 ELSE Len(found)
                /\ calls' = <<"ListServices">>
                            \o (IF Len(svcs) = 0 THEN <<>>
                                ELSE [i \in 1..Len(svcs) |-> "GetEndpoints"])
                /\ UNCHANGED loc
    /\ pc' = "done"
    /\ UNCHANGED <<engine, input, fc>>

NextEpHealth == ListEndpointHealth

SpecEpHealth == InitEpHealth /\ [][NextEpHealth]_vars

\* services of the report whose endpoints were fetched and that are backed by
\* a selector
EpClassified ==
    {i \in 1..Len(actions) :
        LET svc == input.services.items[i]
        IN  ~svc.ep.err /\ svc.Type # "ExternalName" /\ svc.Selector # {}}

EpHealthOf(i) == GetServiceEndpointHealth(input.services.items[i].ep.obj)

EpReportDone == engine = "list_endpoint_health" /\ pc = "done" /\ ~loc.err

\* C26: every service with 0 ready endpoints is flagged DEAD and every
\* service with some but not all of its backing addresses ready is flagged
\* DEGRADED.
C26_ZeroReadyDeadPartialDegraded ==
    EpReportDone =>
        \A i \in EpClassified :
            /\ EpHealthOf(i).ReadyCount = 0 => actions[i].status = "DEAD"
            /\ (EpHealthOf(i).ReadyCount > 0 /\ EpHealthOf(i).NotReadyCount > 0)
                 => actions[i].status = "DEGRADED"

\* what the code flags: DEAD is "no address at all", DEGRADED is "some
\* address not ready", the ready count plays no part
C26_NoAddressDeadAnyNotReadyDegraded ==
    EpReportDone =>
        \A i \in EpClassified :
            /\ actions[i].status = "DEAD" <=> EpHealthOf(i).TotalEndpoints = 0
            /\ actions[i].status = "DEGRADED" <=> (EpHealthOf(i).TotalEndpoints > 0
                                                   /\ EpHealthOf(i).NotReadyCount > 0)

\* ---------------------------------------------------------------------------
\* The edges InferServiceDependencies owes to *_SERVICE_HOST variables

DepsReturned ==
    engine = "go_deps" /\ pc \in {"again", "done"} /\ ~input.servicesErr /\ ~input.podsErr

\* the pairs <<A, B>>: a container of a pod matched to A has a variable whose
\* name ends in _SERVICE_HOST and decodes to B, a service other than A
ServiceHostPairs ==
    LET services == input.services
        svcNames == {services[i].Name : i \in 1..Len(services)}
    IN  {<<services[depOwner(services, input.pods[p])].Name,
           ToLower(ReplaceAll(TrimSuffix(input.pods[p].Containers[c].Env[e].Name,
                                         SufServiceHost), "_", "-"))>> :
            <<p, c, e>> \in
              {t \in (1..Len(input.pods)) \X (1..1) \X (1..MaxEnv) :
                  /\ depOwner(services, input.pods[t[1]]) # 0
                  /\ t[3] <= Len(input.pods[t[1]].Containers[t[2]].Env)
                  /\ LET env == input.pods[t[1]].Containers[t[2]].Env[t[3]]
                         target == ToLower(ReplaceAll(TrimSuffix(env.Name, SufServiceHost),
                                                      "_", "-"))
                     IN  /\ HasSuffix(env.Name, SufServiceHost)
                         /\ target \in svcNames
                         /\ target # services[depOwner(services, input.pods[t[1]])].Name}}

HasEdge(from, to, confidences) ==
    \E i \in 1..Len(loc.deps) :
        /\ loc.deps[i].FromService = from /\ loc.deps[i].ToService = to
        /\ loc.deps[i].Confidence \in confidences

\* C27: a high-confidence edge from A to B is recorded whenever a container
\* of a pod matched to A has a variable whose name ends in _SERVICE_HOST and
\* decodes to B, B is a service of the namespace, and B differs from A.
C27_ServiceHostGivesHighEdge ==
    DepsReturned => \A pr \in ServiceHostPairs : HasEdge(pr[1], pr[2], {"high"})

\* the pair always gets exactly one edge, of whichever confidence came first
C27_ServiceHostGivesOneEdge ==
    DepsReturned =>
        \A pr \in ServiceHostPairs :
            /\ HasEdge(pr[1], pr[2], {"high", "medium"})
            /\ Cardinality({i \in 1..Len(loc.deps) :
                               /\ loc.deps[i].FromService = pr[1]
                               /\ loc.deps[i].ToService = pr[2]}) = 1

\* ---------------------------------------------------------------------------
\* The pod tally of cluster_health_overview on namespaces with many pods

TallyCounts == {0, 1, 2, MaxUnhealthy - 1, MaxUnhealthy}

\* unhealthy Pending pods and healthy Running pods of one namespace
TallyPodsOf(ns, unhealthy, healthy) ==
    [i \in 1..unhealthy |-> NsPod(ns, PodPool[3])]
    \o [i \in 1..healthy |-> NsPod(ns, PodPool[1])]

TallyInputs ==
    {[nodes       |-> Listing(FALSE, <<>>),
      nodeMetrics |-> Listing(TRUE, <<>>),
      pods        |-> Listing(FALSE, TallyPodsOf(NsA, a, ha) \o TallyPodsOf(NsB, b, hb)),
      services    |-> Listing(TRUE, <<>>),
      events      |-> Listing(TRUE, <<>>),
      ksPods      |-> Listing(TRUE, <<>>),
      ingresses   |-> Listing(TRUE, <<>>)] :
        a \in TallyCounts, b \in TallyCounts, ha \in 0..1, hb \in 0..1}

InitTally ==
    /\ engine = "go_overview"
    /\ input \in TallyInputs
    /\ pc = "call"
    /\ loc = [err |-> FALSE, now |-> StartTime]
    /\ lines = <<>>
    /\ findings = 0
    /\ actions = <<>>
    /\ fc = NewFlowchart
    /\ calls = <<>>

NextTally == ClusterHealthOverview

SpecTally == InitTally /\ [][NextTally]_vars

TallyRows == SelectSeq(lines, LAMBDA l : l.what = "tally_row")

TallyDone == engine = "go_overview" /\ pc = "done" /\ ~loc.err

\* C28: the per-namespace pod tally is sorted by unhealthy-pod count,
\* descending: a namespace with more unhealthy pods never appears below one
\* with fewer.
C28_TallyByUnhealthyDescending ==
    TallyDone =>
        \A i, j \in 1..Len(TallyRows) :
            i < j => TallyRows[i].arg.n >= TallyRows[j].arg.n

\* the rows are in descending order of the decimal text of the count, which
\* is the numeric order when the counts have the same number of digits
C28_TallyByUnhealthyText ==
    TallyDone =>
        \A i, j \in 1..Len(TallyRows) :
            i < j => /\ ~StringGreater(Itoa(TallyRows[j].arg.n), Itoa(TallyRows[i].arg.n))
                     /\ (Len(Itoa(TallyRows[i].arg.n)) = Len(Itoa(TallyRows[j].arg.n))
                           => TallyRows[i].arg.n >= TallyRows[j].arg.n)

\* ---------------------------------------------------------------------------
\* Service diagnosis of a service with many events

EventCounts == {0, 1, 2, MaxSvcEvents - 1, MaxSvcEvents}

\* event lists of these lengths: all warnings, or a normal event first
ManyEventResults ==
    {Listing(FALSE, [i \in 1..n |-> IF i = 1 THEN first ELSE "Warning"]) :
        n \in EventCounts, first \in {"Warning", "Normal"}}

SvcEventInputs ==
    {[d EXCEPT !.events = ev] :
        d \in {x \in DiagInputs : /\ x.events = Listing(FALSE, <<>>)
                                  /\ x.pods.err /\ x.metrics.err
                                  /\ x.ingresses.err /\ x.policies.err},
        ev \in ManyEventResults}

InitSvcEvents ==
    /\ engine \in SvcDiagEngines
    /\ input \in SvcEventInputs
    /\ pc = "call"
    /\ loc = [err |-> FALSE]
    /\ lines = <<>>
    /\ findings = IF engine = "ts_diag_svc" THEN <<>> ELSE 0
    /\ actions = <<>>
    /\ fc = NewFlowchart
    /\ calls = <<>>

SpecSvcEvents == InitSvcEvents /\ [][NextSvc]_vars

EventLines == SelectSeq(lines, LAMBDA l : l.t = "event")

HasEvents == SvcDiagDone /\ ~loc.err /\ Len(input.events.items) > 0

\* C29: whenever the diagnosed service has at least one event the Recent
\* Events section lists events: all of them up to 10, the first 10 when there
\* are more, and never none.
C29_RecentEventsListed ==
    HasEvents =>
        /\ Len(EventLines) = Min(Len(input.events.items), 10)
        /\ \A i \in 1..Len(EventLines) :
              (EventLines[i].sev = "WARNING") <=> (input.events.items[i] = "Warning")

\* up to 10 events are all listed, in order; the TypeScript tool lists the
\* first 10 of a longer list
C29_UpToTenEventsListed ==
    (HasEvents /\ (Len(input.events.items) <= 10 \/ engine = "ts_diag_svc")) =>
        /\ Len(EventLines) = Min(Len(input.events.items), 10)
        /\ \A i \in 1..Len(EventLines) :
              (EventLines[i].sev = "WARNING") <=> (input.events.items[i] = "Warning")

\* the Go tool prints the section header and no event for a longer list
C29_GoListsNoneOfMoreThanTen ==
    (HasEvents /\ Len(input.events.items) > 10 /\ engine = "go_diag_svc") =>
        /\ Len(EventLines) = 0
        /\ \E i \in 1..Len(lines) : lines[i] = Section("Recent Events")

====
